---- MODULE Spec2Model ----
(***************************************************************************)
(* A model of the filing assistant (hhinfo/filling_assistant): the column  *)
(* fillability analyzer, the pattern store and its merge, header cleaning, *)
(* and column identification.                                              *)
(*                                                                         *)
(* Conventions.  A Python str is a sequence of one-character strings       *)
(* wherever the code looks inside it (cell values, raw headers); sheet     *)
(* names and learned headers, which the code only compares and sorts, are  *)
(* TLA+ strings.  A Python float that the code builds from the decimal     *)
(* literals 0.1 .. 1.0 is kept as an integer number of tenths or           *)
(* hundredths; each comparison the code makes on it is modelled by the     *)
(* comparison of the scaled integers, except where binary rounding         *)
(* decides, which is tabulated (FloatGapRoundsBelow).                      *)
(***************************************************************************)
EXTENDS Integers, Sequences, FiniteSets, TLC

VARIABLES
    \* enhanced_trainer.py: one iteration of the column loop
    empty_rows, filled_rows, pattern_analysis, learned, apc,
    \* store.py / enhanced_trainer.py: a caller merging learned results
    out,          \* the store the caller holds (the last merge's return value)
    base_obj,     \* the object passed as the last merge's first argument, as it is now
    incoming_obj, \* the object passed as the last merge's second argument, as it is now
    passed,       \* <<store, incoming>> as they were when the last merge was called
    first,        \* the store before any merge
    history,      \* the incoming results merged so far, in order
    merge_fn,     \* which of the two merge functions the caller uses
    shared,       \* paths of out whose dict object is also reachable from incoming
    mpc,
    \* enhanced_header_detector.py: a header cell being cleaned
    raw_header, cleaned, recleaned, hpc,
    \* cli.py / store.py: commands run one after the other on one store file
    store_file,   \* the JSON document in the store file, or NoFile
    written,      \* the object the last save_store was given
    loaded,       \* the object the last load_store returned
    found_pairs,  \* the pairs pair_training_files returned to the last train
    last_cmd, exit_code, commands,
    \* identifier.py / cross_sheet_analyzer.py: one identification call
    document,     \* the parsed target file
    pattern_store, \* the loaded pattern store
    requested,    \* the sheet name asked for, "None" for auto-detection
    cutoff,       \* the confidence threshold, in hundredths
    ai_headers,   \* enhanced header detection was used with confidence > 0.8
    entry_point, report, ipc,
    shown,        \* the result the identify command displays and writes to --out
    \* enhanced_header_detector.py / io_utils.py: header detection on one sheet
    sheet_input,      \* the sheet: its column identifiers and its data rows
    openai_client,    \* "configured", or "none" when the detector has no client
    known_patterns,   \* the pattern store of the analyzer
    min_confidence,   \* the analyzer's threshold, in hundredths
    decision_history, \* the content of openai_header_decisions.json
    clock,            \* the second datetime.now() shows
    last_answer,      \* what the last call to the validator did
    detection,        \* what the last detect_headers_enhanced returned
    enhancement,      \* what the last header detection of the analyzer returned
    sheet_analysis,   \* what the last _analyze_sheet_with_cross_patterns returned
    last_call, detections

avars == <<empty_rows, filled_rows, pattern_analysis, learned, apc>>
mvars == <<out, base_obj, incoming_obj, passed, first, history, merge_fn, shared, mpc>>
hvars == <<raw_header, cleaned, recleaned, hpc>>
svars == <<store_file, written, loaded, found_pairs, last_cmd, exit_code, commands>>
ivars == <<document, pattern_store, requested, cutoff, ai_headers, entry_point, report, ipc,
           shown>>
dvars == <<sheet_input, openai_client, known_patterns, min_confidence, decision_history,
           clock, last_answer, detection, enhancement, sheet_analysis, last_call, detections>>
vars == <<avars, mvars, hvars, svars, ivars, dvars>>

\* The part of the state a specification does not use stays at these values.
AIdle ==
    /\ empty_rows = <<>>
    /\ filled_rows = <<>>
    /\ pattern_analysis = [pending |-> TRUE]
    /\ learned = <<>>
    /\ apc = "idle"

MIdle ==
    /\ out = <<>>
    /\ base_obj = <<>>
    /\ incoming_obj = <<>>
    /\ passed = <<>>
    /\ first = <<>>
    /\ history = <<>>
    /\ merge_fn = "none"
    /\ shared = {}
    /\ mpc = "idle"

HIdle ==
    /\ raw_header = <<>>
    /\ cleaned = <<>>
    /\ recleaned = <<>>
    /\ hpc = "idle"

SIdle ==
    /\ store_file = <<>>
    /\ written = <<>>
    /\ loaded = <<>>
    /\ found_pairs = <<>>
    /\ last_cmd = "idle"
    /\ exit_code = 0
    /\ commands = 0

IIdle ==
    /\ document = <<>>
    /\ pattern_store = <<>>
    /\ requested = "None"
    /\ cutoff = 0
    /\ ai_headers = FALSE
    /\ entry_point = "none"
    /\ report = <<>>
    /\ ipc = "idle"
    /\ shown = <<>>

DIdle ==
    /\ sheet_input = <<>>
    /\ openai_client = "none"
    /\ known_patterns = <<>>
    /\ min_confidence = 0
    /\ decision_history = <<>>
    /\ clock = 0
    /\ last_answer = "none"
    /\ detection = <<>>
    /\ enhancement = <<>>
    /\ sheet_analysis = <<>>
    /\ last_call = "idle"
    /\ detections = 0

Min(a, b) == IF a <= b THEN a ELSE b

Range(s) == {s[i] : i \in 1..Len(s)}

SeqsUpTo(S, n) == UNION {[1..k -> S] : k \in 0..n}

Take(s, n) == SubSeq(s, 1, Min(n, Len(s)))

Repeat(v, n) == [i \in 1..n |-> v]

(***************************************************************************)
(* Character classes used by the regular expressions                       *)
(***************************************************************************)
Digits == {"0", "1", "2", "3", "4", "5", "6", "7", "8", "9"}

UpperChars == {"A", "B", "C", "D", "E", "F", "G", "H", "I", "J", "K", "L", "M",
               "N", "O", "P", "Q", "R", "S", "T", "U", "V", "W", "X", "Y", "Z"}

LowerChars == {"a", "b", "c", "d", "e", "f", "g", "h", "i", "j", "k", "l", "m",
               "n", "o", "p", "q", "r", "s", "t", "u", "v", "w", "x", "y", "z"}

WhiteChars == {" "}

AmountChars == Digits \cup {".", ","}

\* str.strip(): leading and trailing whitespace removed
RECURSIVE LStrip(_)
LStrip(s) == IF s # <<>> /\ Head(s) \in WhiteChars THEN LStrip(Tail(s)) ELSE s

RECURSIVE RStrip(_)
RStrip(s) ==
    IF s # <<>> /\ s[Len(s)] \in WhiteChars THEN RStrip(SubSeq(s, 1, Len(s) - 1)) ELSE s

Strip(s) == RStrip(LStrip(s))

\* v.replace(' ', '')
RECURSIVE RemoveSpaces(_)
RemoveSpaces(s) ==
    IF s = <<>> THEN <<>>
    ELSE IF Head(s) = " " THEN RemoveSpaces(Tail(s))
    ELSE <<Head(s)>> \o RemoveSpaces(Tail(s))

(***************************************************************************)
(* analyze_column_filling_patterns                                         *)
(***************************************************************************)
SampleLimit == 200

\* `v and v not in ['0', '']`
IsNonEmpty(v) == v # <<>> /\ v # <<"0">>

\* [str(row.get(column_key, "")).strip() for row in rows[:200]]
SampleValues(rows) == [i \in 1..Min(Len(rows), SampleLimit) |-> Strip(rows[i])]

NonEmptyCount(values) == Cardinality({i \in 1..Len(values) : IsNonEmpty(values[i])})

UniqueNonEmpty(values) == {values[i] : i \in {j \in 1..Len(values) : IsNonEmpty(values[j])}}

\* [v for v in filled_values if v and v not in ['0', '']]
RECURSIVE NonEmptyValues(_)
NonEmptyValues(values) ==
    IF values = <<>> THEN <<>>
    ELSE IF IsNonEmpty(Head(values)) THEN <<Head(values)>> \o NonEmptyValues(Tail(values))
    ELSE NonEmptyValues(Tail(values))

\* re.match(r'^[\d.,]+$', v.replace(' ', ''))
IsNumericValue(v) ==
    LET w == RemoveSpaces(v) IN w # <<>> /\ \A i \in 1..Len(w) : w[i] \in AmountChars

\* re.search(r'\d+', v)
HasDigits(v) == \E i \in 1..Len(v) : v[i] \in Digits

\* re.search(r'[\d.,]+', v)
HasAmount(v) == \E i \in 1..Len(v) : v[i] \in AmountChars

\* re.search(r'[A-Z]{2,4}', v)
HasCode(v) == \E i \in 1..(Len(v) - 1) : v[i] \in UpperChars /\ v[i + 1] \in UpperChars

\* re.search(r'\d{4}-\d{2}-\d{2}', v)
HasDate(v) ==
    \E i \in 1..(Len(v) - 9) :
        /\ \A k \in {0, 1, 2, 3, 5, 6, 8, 9} : v[i + k] \in Digits
        /\ v[i + 4] = "-" /\ v[i + 7] = "-"

\* re.search(r'[a-z]+@[a-z]+\.[a-z]+', v)
HasEmail(v) ==
    \E i \in 2..Len(v) : \E j \in (i + 2)..(Len(v) - 1) :
        /\ v[i] = "@" /\ v[i - 1] \in LowerChars
        /\ v[j] = "." /\ v[j + 1] \in LowerChars
        /\ \A k \in (i + 1)..(j - 1) : v[k] \in LowerChars

\* the number of common_patterns that match at least one filled value
PatternMatches(values) ==
    LET hit(P(_)) == IF \E i \in 1..Len(values) : P(values[i]) THEN 1 ELSE 0
    IN hit(HasDigits) + hit(HasAmount) + hit(HasCode) + hit(HasDate) + hit(HasEmail)

\* Triples <<empty_non_empty, filled_non_empty, total_rows>> with
\* 5 * (filled - empty) = total_rows, for which Python's
\* (filled_ratio - empty_ratio) >= 0.2 is False because the float difference
\* rounds below 0.2 (total_rows up to 15, counts up to 15).
FloatGapRoundsBelow ==
    {<<2, 3, 5>>, <<4, 5, 5>>, <<5, 6, 5>>, <<6, 7, 5>>, <<8, 9, 5>>, <<9, 10, 5>>,
     <<11, 12, 5>>, <<13, 14, 5>>, <<4, 6, 10>>, <<5, 7, 10>>, <<8, 10, 10>>,
     <<10, 12, 10>>, <<11, 13, 10>>, <<12, 14, 10>>, <<13, 15, 10>>,
     <<2, 5, 15>>, <<6, 9, 15>>, <<7, 10, 15>>, <<8, 11, 15>>, <<12, 15, 15>>}

GapNotNegative(e, f, total) == e <= f

\* empty_ratio < filled_ratio and (filled_ratio - empty_ratio) >= 0.2
GapAtLeastFifth(e, f, total) ==
    /\ e < f
    /\ 5 * (f - e) >= total
    /\ <<e, f, total>> \notin FloatGapRoundsBelow

\* The weights of the five signals, in tenths.
W_empty_to_filled == 8
W_increased_filling == 6
W_value_diversity == 3
W_numeric_pattern == 2
W_structured_pattern == 1
FillableTenths == 3

\* a partial filling test in an if of its own
PartialFillingAlways(classic, e, f, total) == GapAtLeastFifth(e, f, total)

\* the elif after the classic pattern: partial filling is only looked at
\* when the classic pattern did not fire
PartialFilling(classic, e, f, total) == ~classic /\ GapAtLeastFifth(e, f, total)

\* total_rows = min(len(empty_values), len(filled_values))
TotalRowsMax(empty_values, filled_values) ==
    IF Len(empty_values) >= Len(filled_values) THEN Len(empty_values) ELSE Len(filled_values)

TotalRows(empty_values, filled_values) == Min(Len(empty_values), Len(filled_values))

NoData == [fillable |-> FALSE, confidence |-> 0, reason |-> "no_data"]

analyze_column_filling_patterns(e_rows, f_rows) ==
    LET empty_values == SampleValues(e_rows)
        filled_values == SampleValues(f_rows)
        empty_non_empty == NonEmptyCount(empty_values)
        filled_non_empty == NonEmptyCount(filled_values)
        total_rows == TotalRows(empty_values, filled_values)
        \* empty_ratio <= 0.1 and filled_ratio >= 0.3
        classic == 10 * empty_non_empty <= total_rows /\ 10 * filled_non_empty >= 3 * total_rows
        partial == PartialFilling(classic, empty_non_empty, filled_non_empty, total_rows)
        \* len(filled_unique) > len(empty_unique) * 1.5
        diverse == /\ Len(filled_values) > 0 /\ Len(empty_values) > 0
                   /\ 2 * Cardinality(UniqueNonEmpty(filled_values))
                        > 3 * Cardinality(UniqueNonEmpty(empty_values))
        filled_non_empty_values == NonEmptyValues(filled_values)
        n == Len(filled_non_empty_values)
        numeric_count == Cardinality({i \in 1..n : IsNumericValue(filled_non_empty_values[i])})
        \* numeric_ratio > 0.7
        numeric == n > 0 /\ 10 * numeric_count > 7 * n
        structured == n > 0 /\ PatternMatches(filled_non_empty_values) >= 2
        fillability_score ==
            (IF classic THEN W_empty_to_filled ELSE 0)
            + (IF partial THEN W_increased_filling ELSE 0)
            + (IF diverse THEN W_value_diversity ELSE 0)
            + (IF numeric THEN W_numeric_pattern ELSE 0)
            + (IF structured THEN W_structured_pattern ELSE 0)
        confidence == Min(fillability_score, 10)
        reasons ==
            (IF classic THEN <<"empty_to_filled">> ELSE <<>>)
            \o (IF partial THEN <<"increased_filling">> ELSE <<>>)
            \o (IF diverse THEN <<"value_diversity_increase">> ELSE <<>>)
            \o (IF numeric THEN <<"numeric_pattern">> ELSE <<>>)
            \o (IF structured THEN <<"structured_pattern">> ELSE <<>>)
    IN  IF total_rows = 0 THEN NoData
        ELSE [fillable |-> confidence >= FillableTenths,
              confidence |-> confidence,
              empty_ratio |-> <<empty_non_empty, total_rows>>,
              filled_ratio |-> <<filled_non_empty, total_rows>>,
              empty_count |-> empty_non_empty,
              filled_count |-> filled_non_empty,
              total_rows |-> total_rows,
              reasons |-> reasons,
              filled_sample_values |-> Take(filled_non_empty_values, 10)]

(***************************************************************************)
(* learn_value_patterns: the value-type classification                     *)
(***************************************************************************)
\* re.match(r'^[\d.,\-+]+$', v.strip())
IsSignedNumeric(v) ==
    LET w == Strip(v) IN w # <<>> /\ \A i \in 1..Len(w) : w[i] \in AmountChars \cup {"-", "+"}

\* re.match(r'^[a-zA-Z\s]+$', v.strip())
IsAlphabetic(v) ==
    LET w == Strip(v)
    IN w # <<>> /\ \A i \in 1..Len(w) : w[i] \in UpperChars \cup LowerChars \cup WhiteChars

value_types(column_values) ==
    LET total == Len(column_values)
        numeric_count == Cardinality({i \in 1..total : IsSignedNumeric(column_values[i])})
        alpha_count == Cardinality({i \in 1..total : IsAlphabetic(column_values[i])})
        mixed_count == total - numeric_count - alpha_count
    IN  (IF 10 * numeric_count > 7 * total THEN <<"numeric">> ELSE <<>>)
        \o (IF 10 * alpha_count > 7 * total THEN <<"alphabetic">> ELSE <<>>)
        \o (IF 2 * mixed_count > total THEN <<"mixed">> ELSE <<>>)

(***************************************************************************)
(* enhanced_learn_from_pair: the body of the column loop                   *)
(***************************************************************************)
\* What verify_label may answer (label, confidence in hundredths, method).
VerifierAnswers ==
    {[label |-> "rate", confidence |-> 90, method |-> <<"mock-variant">>],
     [label |-> "unknown", confidence |-> 30, method |-> <<"mock-unknown">>]}

NoColumns ==
    [columns_to_fill |-> <<>>, column_positions |-> <<>>, header_map |-> <<>>,
     verifications |-> <<>>, enhanced_patterns |-> <<>>]

\* dict[key] = value
Put(d, key, value) == [k \in DOMAIN d \cup {key} |-> IF k = key THEN value ELSE d[k]]

LearnedColumn(acc, raw, idx, pa, answer) ==
    LET filled_values == IF "filled_sample_values" \in DOMAIN pa
                         THEN pa.filled_sample_values ELSE <<>>
        patterns == IF pa.fillable /\ filled_values # <<>>
                    THEN Put(acc.enhanced_patterns, raw,
                             [value_types |-> value_types(filled_values)])
                    ELSE acc.enhanced_patterns
        boosted == raw \in DOMAIN patterns
        pattern_boost == IF boosted /\ patterns[raw].value_types # <<>> THEN 10 ELSE 0
    IN  [columns_to_fill |-> IF pa.fillable THEN Append(acc.columns_to_fill, raw)
                             ELSE acc.columns_to_fill,
         column_positions |-> IF pa.fillable THEN Put(acc.column_positions, raw, idx)
                              ELSE acc.column_positions,
         header_map |-> Put(acc.header_map, raw,
                            (IF raw \in DOMAIN acc.header_map THEN acc.header_map[raw] ELSE {})
                                \cup {raw}),
         verifications |-> Put(acc.verifications, raw,
                               [label |-> answer.label,
                                confidence |-> IF boosted
                                               THEN Min(answer.confidence + pattern_boost, 100)
                                               ELSE answer.confidence,
                                method |-> IF boosted THEN answer.method \o <<"pattern">>
                                           ELSE answer.method,
                                pattern_analysis |-> pa]),
         enhanced_patterns |-> patterns]

(***************************************************************************)
(* The analyzer's inputs: the cells of one column in the empty and in the  *)
(* filled version of a sheet.  The empty version's column is a few leading *)
(* cells followed by a run of blank cells.                                 *)
(***************************************************************************)
Cells == {<<>>, <<"0">>, <<" ", "7">>, <<"A", "B">>}

MaxEmptyLead == 1
MaxBlankRun == 9
MaxFilledRows == 2

EmptySamples ==
    {lead \o Repeat(<<>>, pad) : lead \in SeqsUpTo(Cells, MaxEmptyLead), pad \in 0..MaxBlankRun}

FilledSamples == SeqsUpTo(Cells, MaxFilledRows)

AnalyzedHeader == "rate"

AInit ==
    /\ empty_rows \in EmptySamples
    /\ filled_rows \in FilledSamples
    /\ pattern_analysis = [pending |-> TRUE]
    /\ learned = NoColumns
    /\ apc = "column"
    /\ MIdle
    /\ HIdle
    /\ SIdle
    /\ IIdle
    /\ DIdle

\* one iteration of `for idx in value_cols` (the column at position 1)
LearnColumn ==
    /\ apc = "column"
    /\ \E answer \in VerifierAnswers :
        LET pa == analyze_column_filling_patterns(empty_rows, filled_rows)
        IN  /\ pattern_analysis' = pa
            /\ learned' = LearnedColumn(learned, AnalyzedHeader, 1, pa, answer)
    /\ apc' = "analyzed"
    /\ UNCHANGED <<empty_rows, filled_rows>>
    /\ UNCHANGED <<mvars, hvars, svars, ivars, dvars>>

ANext == LearnColumn

SpecAnalyze == AInit /\ [][ANext]_vars

(***************************************************************************)
(* Claims about the fillability analyzer (checked under SpecAnalyze)       *)
(***************************************************************************)
\* The fraction of non-empty values in a version's own sample, compared
\* with num/den.
OwnRatioAtMost(rows, num, den) ==
    Len(rows) > 0 /\ den * NonEmptyCount(SampleValues(rows)) <= num * Len(SampleValues(rows))

OwnRatioAtLeast(rows, num, den) ==
    Len(rows) > 0 /\ den * NonEmptyCount(SampleValues(rows)) >= num * Len(SampleValues(rows))

\* C1: whenever the empty version's non-empty ratio is <= 0.1 and the filled
\* version's non-empty ratio is >= 0.3, the analysis is fillable with
\* confidence >= 0.8 and its reasons contain "empty_to_filled".
C1_EmptyToFilled ==
    (apc = "analyzed" /\ OwnRatioAtMost(empty_rows, 1, 10) /\ OwnRatioAtLeast(filled_rows, 3, 10))
        => /\ pattern_analysis.fillable
           /\ pattern_analysis.confidence >= W_empty_to_filled
           /\ "reasons" \in DOMAIN pattern_analysis
           /\ "empty_to_filled" \in Range(pattern_analysis.reasons)

\* C2: with zero overlapping rows (either sample empty) the analysis is the
\* ordinary result fillable=false, confidence=0.0, reason="no_data", the
\* column loop completes, and the column is not in the sheet's fillable list.
C2_NoData ==
    (apc = "analyzed" /\ (Len(empty_rows) = 0 \/ Len(filled_rows) = 0))
        => /\ pattern_analysis = [fillable |-> FALSE, confidence |-> 0, reason |-> "no_data"]
           /\ AnalyzedHeader \notin Range(learned.columns_to_fill)
           /\ AnalyzedHeader \notin DOMAIN learned.column_positions
           /\ AnalyzedHeader \in DOMAIN learned.verifications

C2_Witness ==
    /\ apc = "analyzed"
    /\ Len(filled_rows) = 0 /\ NonEmptyCount(SampleValues(empty_rows)) > 0
    /\ pattern_analysis.confidence = 0

(***************************************************************************)
(* The pattern store.  A store is [sheets |-> (sheet name -> sheet)], a    *)
(* sheet is a dict with the keys header_map, columns_to_fill,              *)
(* column_positions, verifications and, optionally, enhanced_patterns.     *)
(***************************************************************************)
\* Every header and sheet name of the model, in Python's string order.
HeaderOrder == <<"cost", "rate", "tax", "unit">>

Rank(h) == CHOOSE i \in 1..Len(HeaderOrder) : HeaderOrder[i] = h

\* sorted(S) for a set of strings
RECURSIVE Sorted(_)
Sorted(S) ==
    IF S = {} THEN <<>>
    ELSE LET least == CHOOSE x \in S : \A y \in S : Rank(x) <= Rank(y)
         IN <<least>> \o Sorted(S \ {least})

\* d.get(key, default)
Get(d, key, default) == IF key \in DOMAIN d THEN d[key] ELSE default

EmptyStore == [sheets |-> <<>>]

\* the dict setdefault creates for a sheet the store does not have yet
DefaultSheet ==
    [header_map |-> <<>>, columns_to_fill |-> <<>>, column_positions |-> <<>>,
     verifications |-> <<>>]

\* per key: the incoming value where incoming has the key, else the target's
Overwrite(target_map, incoming_map) ==
    [k \in DOMAIN target_map \cup DOMAIN incoming_map |->
        IF k \in DOMAIN incoming_map THEN incoming_map[k] ELSE target_map[k]]

\* header variants: a list-concatenating merge (no set, no sort)
MergedVariantsAppend(old, variants) == old \o variants

\* sorted(set(target["header_map"].get(norm, [])) | set(variants))
MergedVariants(old, variants) == Sorted(Range(old) \cup Range(variants))

\* fillable list: the incoming list replaces the target's
MergedFillableReplace(old, incoming) == Sorted(Range(incoming))

\* sorted(set(target.get("columns_to_fill", [])) | set(payload.get("columns_to_fill", [])))
MergedFillable(old, incoming) == Sorted(Range(old) \cup Range(incoming))

\* positions and verdicts: a merge that keeps the value the target already has
OverwriteKeepOld(target_map, incoming_map) ==
    [k \in DOMAIN target_map \cup DOMAIN incoming_map |->
        IF k \in DOMAIN target_map THEN target_map[k] ELSE incoming_map[k]]

\* for key, v in payload.get(...).items(): target[...][key] = v
OverwriteScalars(target_map, incoming_map) == Overwrite(target_map, incoming_map)

\* the body of merge_patterns' loop for one sheet of incoming
MergeSheet(target, payload) ==
    LET hm == Get(payload, "header_map", <<>>)
        header_map == [norm \in DOMAIN target.header_map \cup DOMAIN hm |->
                          IF norm \in DOMAIN hm
                          THEN MergedVariants(Get(target.header_map, norm, <<>>), hm[norm])
                          ELSE target.header_map[norm]]
        columns_to_fill == MergedFillable(Get(target, "columns_to_fill", <<>>),
                                          Get(payload, "columns_to_fill", <<>>))
        column_positions == OverwriteScalars(target.column_positions,
                                             Get(payload, "column_positions", <<>>))
        verifications == OverwriteScalars(target.verifications,
                                          Get(payload, "verifications", <<>>))
    IN  [k \in DOMAIN target |->
            CASE k = "header_map" -> header_map
              [] k = "columns_to_fill" -> columns_to_fill
              [] k = "column_positions" -> column_positions
              [] k = "verifications" -> verifications
              [] OTHER -> target[k]]

merge_patterns(store, incoming) ==
    LET inc == Get(incoming, "sheets", <<>>)
    IN  [sheets |->
            [sheet \in DOMAIN store.sheets \cup DOMAIN inc |->
                IF sheet \in DOMAIN inc
                THEN MergeSheet(Get(store.sheets, sheet, DefaultSheet), inc[sheet])
                ELSE store.sheets[sheet]]]

enhanced_merge_patterns(store1, store2) ==
    LET merged == merge_patterns(store1, store2)
        inc == Get(store2, "sheets", <<>>)
    IN  [sheets |->
            [sheet \in DOMAIN merged.sheets |->
                LET enhanced_patterns ==
                        IF sheet \in DOMAIN inc
                        THEN Get(inc[sheet], "enhanced_patterns", <<>>) ELSE <<>>
                IN  IF DOMAIN enhanced_patterns # {}
                    THEN Put(merged.sheets[sheet], "enhanced_patterns",
                             Overwrite(Get(merged.sheets[sheet], "enhanced_patterns", <<>>),
                                       enhanced_patterns))
                    ELSE merged.sheets[sheet]]]

(***************************************************************************)
(* enhanced_learn_from_pair on a training pair.  A pair is a function from *)
(* the data sheets common to both files to the sheet's value columns, in   *)
(* position order (position 0 is the row label); each column has its       *)
(* header and its cells in the empty and in the filled file.               *)
(***************************************************************************)
\* The label verifier is an external service; the model fixes its answer.
verify_label(raw) ==
    CASE raw = "rate" -> [label |-> raw, confidence |-> 95, method |-> <<"mock-exact">>]
      [] raw \in {"item", "unit", "col_1", "col_2", "col_3"} ->
            [label |-> "unknown", confidence |-> 30, method |-> <<"mock-unknown">>]
      [] OTHER -> [label |-> raw, confidence |-> 90, method |-> <<"mock-variant">>]

RECURSIVE LearnColumns(_, _, _)
LearnColumns(acc, columns, idx) ==
    IF idx > Len(columns) THEN acc
    ELSE LearnColumns(
            LearnedColumn(acc, columns[idx].raw, idx,
                          analyze_column_filling_patterns(columns[idx].empty, columns[idx].filled),
                          verify_label(columns[idx].raw)),
            columns, idx + 1)

\* all_results["sheets"][current_sheet] = {...}
LearnedSheet(columns) ==
    LET acc == LearnColumns(NoColumns, columns, 1)
    IN  [header_map |-> [raw \in DOMAIN acc.header_map |-> Sorted(acc.header_map[raw])],
         columns_to_fill |-> Sorted(Range(acc.columns_to_fill)),
         column_positions |-> acc.column_positions,
         verifications |-> acc.verifications,
         enhanced_patterns |-> acc.enhanced_patterns,
         enhanced_headers_used |-> FALSE,
         header_detection_method |-> "basic"]

enhanced_learn_from_pair(pair) == [sheets |-> [sheet \in DOMAIN pair |-> LearnedSheet(pair[sheet])]]

(***************************************************************************)
(* The update command's change to the loaded store.  The user file maps a  *)
(* sheet to its column_labels, a list of <<raw, label>> in file order.     *)
(***************************************************************************)
\* an update that does not touch header_map
RECURSIVE UpdateSheetVerdictOnly(_, _)
UpdateSheetVerdictOnly(target, labels) ==
    IF labels = <<>> THEN target
    ELSE LET raw == labels[1][1]
             norm == labels[1][2]
             next == [target EXCEPT
                        !.columns_to_fill = IF raw \in Range(@) THEN @ ELSE Append(@, raw),
                        !.verifications = Put(@, raw,
                            [label |-> norm, confidence |-> 100, method |-> <<"user">>])]
         IN UpdateSheetVerdictOnly(next, Tail(labels))

RECURSIVE UpdateSheet(_, _)
UpdateSheet(target, labels) ==
    IF labels = <<>> THEN target
    ELSE LET raw == labels[1][1]
             norm == labels[1][2]
             next == [target EXCEPT
                        !.header_map = IF raw \in DOMAIN @ THEN @ ELSE Put(@, raw, <<>>),
                        !.columns_to_fill = IF raw \in Range(@) THEN @ ELSE Append(@, raw),
                        !.verifications = Put(@, raw,
                            [label |-> norm, confidence |-> 100, method |-> <<"user">>])]
         IN UpdateSheet(next, Tail(labels))

UpdateStoreNamedOnly(st, upd) ==
    [sheets |->
        [sheet \in DOMAIN upd |->
            UpdateSheet(Get(st.sheets, sheet, DefaultSheet), upd[sheet])]]

UpdateStore(st, upd) ==
    [sheets |->
        [sheet \in DOMAIN st.sheets \cup DOMAIN upd |->
            IF sheet \in DOMAIN upd
            THEN UpdateSheet(Get(st.sheets, sheet, DefaultSheet), upd[sheet])
            ELSE st.sheets[sheet]]]

(***************************************************************************)
(* A caller of the merge functions.  It starts from a store, merges        *)
(* learned results into it one after the other with one of the two merge   *)
(* functions (as train does), and may afterwards write into the store it   *)
(* got back.  Python passes dicts by reference: base and incoming are the  *)
(* caller's objects, and shared records which dicts of the returned store  *)
(* are the very objects hanging in incoming.                               *)
(***************************************************************************)
SheetNames == {"s1", "s2"}

BlankRows == <<<<>>, <<>>>>
NumberRows == <<<<"7">>, <<"8">>>>
TextRows == <<<<"A", "B">>, <<"A", "B">>>>

\* value columns of a training sheet, in position order
ColumnsA ==
    <<[raw |-> "cost", empty |-> BlankRows, filled |-> NumberRows],
      [raw |-> "rate", empty |-> TextRows, filled |-> TextRows],
      [raw |-> "tax", empty |-> BlankRows, filled |-> NumberRows]>>

ColumnsB ==
    <<[raw |-> "rate", empty |-> BlankRows, filled |-> NumberRows],
      [raw |-> "cost", empty |-> BlankRows, filled |-> TextRows]>>

TrainingPairs == UNION {[sheets -> {ColumnsA, ColumnsB}] : sheets \in SUBSET SheetNames}

Incomings == {enhanced_learn_from_pair(pair) : pair \in TrainingPairs}

\* user label files of the update command
UserLabels ==
    {("s1" :> <<<<"unit", "each">>, <<"cost", "price">>>>),
     ("s2" :> <<<<"rate", "rate">>>>)}

\* stores a caller can hold: a new one, a trained one, an updated one
BaseStores ==
    {EmptyStore}
        \cup {enhanced_merge_patterns(EmptyStore, inc) : inc \in Incomings}
        \cup {UpdateStore(EmptyStore, upd) : upd \in UserLabels}
        \cup {UpdateStore(enhanced_merge_patterns(EmptyStore, inc), upd) :
                inc \in Incomings, upd \in UserLabels}

MaxMerges == 2

Merge(fn, store, inc) ==
    IF fn = "enhanced" THEN enhanced_merge_patterns(store, inc) ELSE merge_patterns(store, inc)

\* out = deepcopy(store): no dict of the result is an object of store
SharedWithBase(store) == {}

\* target["verifications"][raw] = v and ...["enhanced_patterns"][col] = patterns
\* store incoming's own dict objects in the result
SharedWithIncoming(fn, inc) ==
    LET sheets == Get(inc, "sheets", <<>>)
        PathsOf(field) ==
            UNION {{<<sheet, field, key>> : key \in DOMAIN Get(sheets[sheet], field, <<>>)} :
                    sheet \in DOMAIN sheets}
    IN  PathsOf("verifications")
            \cup (IF fn = "enhanced" THEN PathsOf("enhanced_patterns") ELSE {})

\* the per-column dicts of a store: <<sheet, field, key>>
DictPaths(store) ==
    UNION {{<<sheet, field, key>> : key \in DOMAIN Get(store.sheets[sheet], field, <<>>)} :
            sheet \in DOMAIN store.sheets, field \in {"verifications", "enhanced_patterns"}}

\* obj["sheets"][sheet][field][key]["reviewed"] = True
WriteInto(obj, path) ==
    [sheets |-> [obj.sheets EXCEPT ![path[1]] =
        [@ EXCEPT ![path[2]] = [@ EXCEPT ![path[3]] = Put(@, "reviewed", TRUE)]]]]

MInit ==
    /\ out \in BaseStores
    /\ base_obj = out
    /\ incoming_obj = EmptyStore
    /\ passed = <<out, EmptyStore>>
    /\ first = out
    /\ history = <<>>
    /\ merge_fn \in {"basic", "enhanced"}
    /\ shared = {}
    /\ mpc = "ready"
    /\ AIdle
    /\ HIdle
    /\ SIdle
    /\ IIdle
    /\ DIdle

Merged(inc) ==
    /\ base_obj' = out
    /\ incoming_obj' = inc
    /\ passed' = <<out, inc>>
    /\ history' = Append(history, inc)
    /\ shared' = SharedWithIncoming(merge_fn, inc)
    /\ UNCHANGED <<first, merge_fn, mpc>>
    /\ UNCHANGED <<avars, hvars, svars, ivars, dvars>>

\* store = merge_patterns(store, learned)
MergeBasic ==
    /\ mpc = "ready"
    /\ merge_fn = "basic"
    /\ Len(history) < MaxMerges
    /\ \E inc \in Incomings :
        /\ out' = merge_patterns(out, inc)
        /\ Merged(inc)

\* store = enhanced_merge_patterns(store, learned)
MergeEnhanced ==
    /\ mpc = "ready"
    /\ merge_fn = "enhanced"
    /\ Len(history) < MaxMerges
    /\ \E inc \in Incomings :
        /\ out' = enhanced_merge_patterns(out, inc)
        /\ Merged(inc)

\* the caller writes into a per-column dict of the store it got back
MutateReturned ==
    /\ mpc = "ready"
    /\ history # <<>>
    /\ \E path \in DictPaths(out) :
        /\ out' = WriteInto(out, path)
        /\ incoming_obj' = IF path \in shared THEN WriteInto(incoming_obj, path) ELSE incoming_obj
        /\ base_obj' = IF path \in SharedWithBase(passed[1]) THEN WriteInto(base_obj, path) ELSE base_obj
    /\ mpc' = "mutated"
    /\ UNCHANGED <<passed, first, history, merge_fn, shared>>
    /\ UNCHANGED <<avars, hvars, svars, ivars, dvars>>

MNext == MergeBasic \/ MergeEnhanced \/ MutateReturned

SpecMerge == MInit /\ [][MNext]_vars

MMerged == mpc = "ready" /\ history # <<>>

(***************************************************************************)
(* Claims about merging (checked under SpecMerge)                          *)
(***************************************************************************)
\* store["sheets"][sheet].get(field, {}), {} for a sheet the store lacks
Field(store, sheet, field) ==
    IF sheet \in DOMAIN store.sheets THEN Get(store.sheets[sheet], field, <<>>) ELSE <<>>

\* the stored fillable list and header-variant lists of every sheet
SetFields(store) ==
    [sheet \in DOMAIN store.sheets |->
        [columns_to_fill |-> Field(store, sheet, "columns_to_fill"),
         header_map |-> Field(store, sheet, "header_map")]]

FillSet(store, sheet) == Range(Field(store, sheet, "columns_to_fill"))

VariantSet(store, sheet, norm) == Range(Get(Field(store, sheet, "header_map"), norm, <<>>))

\* C3: merging the same incoming result a second time leaves, for every
\* sheet, the fillable list and the header-variant lists (hence the sets)
\* exactly as they were after merging it once.
C3_MergeIdempotent ==
    (MMerged /\ Len(history) >= 2 /\ history[Len(history)] = history[Len(history) - 1])
        => SetFields(out) = SetFields(passed[1])

C3_Witness ==
    /\ MMerged
    /\ Len(history) = 2
    /\ history[1] = history[2]
    /\ \E sheet \in DOMAIN history[1].sheets :
        /\ FillSet(history[1], sheet) # {}
        /\ ~(FillSet(history[1], sheet) \subseteq FillSet(first, sheet))
        /\ FillSet(first, sheet) # {}

\* C4: merging A then B and merging B then A give, for every sheet, the same
\* fillable list and header-variant lists, and each set is the union of the
\* base's and both incomings' sets.
C4_MergeOrderIndependent ==
    (MMerged /\ Len(history) = 2)
        => LET A == history[1]
               B == history[2]
               other == Merge(merge_fn, Merge(merge_fn, first, B), A)
               sheets == DOMAIN first.sheets \cup DOMAIN A.sheets \cup DOMAIN B.sheets
           IN  /\ SetFields(out) = SetFields(other)
               /\ DOMAIN out.sheets = sheets
               /\ \A sheet \in sheets :
                    /\ FillSet(out, sheet)
                         = FillSet(first, sheet) \cup FillSet(A, sheet) \cup FillSet(B, sheet)
                    /\ DOMAIN Field(out, sheet, "header_map")
                         = DOMAIN Field(first, sheet, "header_map")
                             \cup DOMAIN Field(A, sheet, "header_map")
                             \cup DOMAIN Field(B, sheet, "header_map")
                    /\ \A norm \in DOMAIN Field(out, sheet, "header_map") :
                         VariantSet(out, sheet, norm)
                           = VariantSet(first, sheet, norm) \cup VariantSet(A, sheet, norm)
                               \cup VariantSet(B, sheet, norm)

C4_Witness ==
    /\ MMerged
    /\ Len(history) = 2
    /\ \E sheet \in DOMAIN history[1].sheets \cap DOMAIN history[2].sheets :
        /\ ~(FillSet(history[1], sheet) \subseteq FillSet(history[2], sheet))
        /\ ~(FillSet(history[2], sheet) \subseteq FillSet(history[1], sheet))
        /\ ~(FillSet(first, sheet) \subseteq FillSet(history[1], sheet) \cup FillSet(history[2], sheet))

\* the maps a merge function overwrites per key
ScalarFields(fn) ==
    IF fn = "enhanced" THEN {"column_positions", "verifications", "enhanced_patterns"}
    ELSE {"column_positions", "verifications"}

\* the merged results that carried a value for the key, by position in history
Writers(sheet, field, key) ==
    {i \in 1..Len(history) : key \in DOMAIN Field(history[i], sheet, field)}

Latest(S) == CHOOSE i \in S : \A j \in S : j <= i

\* C5: after a merge every key of incoming's position, verdict and
\* value-pattern maps carries incoming's value and a key only the base has
\* keeps the base's value; after a sequence of merges each key holds the
\* value of the last merged result that contained it.  (The value-pattern
\* map is merged by enhanced_merge_patterns only.)
C5_LastWriteWins ==
    MMerged =>
        \A sheet \in DOMAIN out.sheets : \A field \in ScalarFields(merge_fn) :
            /\ DOMAIN Field(out, sheet, field)
                 = DOMAIN Field(passed[1], sheet, field) \cup DOMAIN Field(passed[2], sheet, field)
            /\ \A key \in DOMAIN Field(out, sheet, field) :
                /\ Field(out, sheet, field)[key]
                     = IF key \in DOMAIN Field(passed[2], sheet, field)
                       THEN Field(passed[2], sheet, field)[key]
                       ELSE Field(passed[1], sheet, field)[key]
                /\ Field(out, sheet, field)[key]
                     = IF Writers(sheet, field, key) = {}
                       THEN Field(first, sheet, field)[key]
                       ELSE Field(history[Latest(Writers(sheet, field, key))], sheet, field)[key]

C5_Witness ==
    /\ MMerged
    /\ merge_fn = "enhanced"
    /\ Len(history) = 2
    /\ \E sheet \in DOMAIN out.sheets :
        /\ \E key \in DOMAIN Field(history[1], sheet, "column_positions")
                        \cap DOMAIN Field(history[2], sheet, "column_positions") :
             Field(history[1], sheet, "column_positions")[key]
                # Field(history[2], sheet, "column_positions")[key]
        /\ \E key \in DOMAIN Field(history[1], sheet, "enhanced_patterns")
                        \cap DOMAIN Field(history[2], sheet, "enhanced_patterns") :
             Field(history[1], sheet, "enhanced_patterns")[key]
                # Field(history[2], sheet, "enhanced_patterns")[key]
        /\ \E key \in DOMAIN Field(first, sheet, "verifications") :
             Writers(sheet, "verifications", key) = {}

\* C6: a merge leaves both of its arguments as they were passed, keeps the
\* sheets absent from incoming identical in the result, and no later write
\* into the returned store changes the base or the incoming object.
C6_MergePure ==
    (mpc \in {"ready", "mutated"} /\ history # <<>>)
        => /\ base_obj = passed[1]
           /\ incoming_obj = passed[2]
           /\ mpc = "ready" =>
                \A sheet \in DOMAIN passed[1].sheets \ DOMAIN passed[2].sheets :
                    sheet \in DOMAIN out.sheets /\ out.sheets[sheet] = passed[1].sheets[sheet]

(***************************************************************************)
(* Header cleaning (EnhancedHeaderDetector.clean_header_name).  A header   *)
(* is a sequence of characters; re.sub scans left to right and replaces    *)
(* the non-overlapping matches.  Headers are single-line.                  *)
(***************************************************************************)
UpperSeq ==
    <<"A", "B", "C", "D", "E", "F", "G", "H", "I", "J", "K", "L", "M",
      "N", "O", "P", "Q", "R", "S", "T", "U", "V", "W", "X", "Y", "Z">>

LowerSeq ==
    <<"a", "b", "c", "d", "e", "f", "g", "h", "i", "j", "k", "l", "m",
      "n", "o", "p", "q", "r", "s", "t", "u", "v", "w", "x", "y", "z">>

\* str.lower() on one character
LowerChar(c) ==
    IF \E i \in 1..Len(UpperSeq) : UpperSeq[i] = c
    THEN LowerSeq[CHOOSE i \in 1..Len(UpperSeq) : UpperSeq[i] = c]
    ELSE c

Lower(s) == [i \in 1..Len(s) |-> LowerChar(s[i])]

\* s[i:].startswith(lit), i counted from 1
StartsAt(s, i, lit) ==
    /\ i + Len(lit) - 1 <= Len(s)
    /\ \A k \in 1..Len(lit) : s[i + k - 1] = lit[k]

\* re.sub(re.escape(lit), '', s) from position i on
RECURSIVE RemoveLiteralFrom(_, _, _)
RemoveLiteralFrom(s, i, lit) ==
    IF i > Len(s) THEN <<>>
    ELSE IF StartsAt(s, i, lit) THEN RemoveLiteralFrom(s, i + Len(lit), lit)
    ELSE <<s[i]>> \o RemoveLiteralFrom(s, i + 1, lit)

RemoveLiteral(s, lit) == RemoveLiteralFrom(s, 1, lit)

\* re.sub(open .*? close, '', s) from position i on: a match starts at an
\* open marker and ends with the nearest close marker after it
RECURSIVE RemoveDelimitedFrom(_, _, _, _)
RemoveDelimitedFrom(s, i, open, close) ==
    IF i > Len(s) THEN <<>>
    ELSE LET ends == {j \in (i + Len(open))..Len(s) : StartsAt(s, j, close)}
         IN  IF StartsAt(s, i, open) /\ ends # {}
             THEN LET j == CHOOSE e \in ends : \A f \in ends : e <= f
                  IN  RemoveDelimitedFrom(s, j + Len(close), open, close)
             ELSE <<s[i]>> \o RemoveDelimitedFrom(s, i + 1, open, close)

RemoveDelimited(s, open, close) == RemoveDelimitedFrom(s, 1, open, close)

\* for pattern in self.template_patterns: cleaned = re.sub(pattern, '', cleaned)
RemoveTemplateMarkers(s) ==
    LET p1 == RemoveDelimited(s, <<"<", "<">>, <<">", ">">>)
        p2 == RemoveDelimited(p1, <<"{", "{">>, <<"}", "}">>)
        p3 == RemoveDelimited(p2, <<"$", "{">>, <<"}">>)
        p4 == RemoveLiteral(p3, <<"a", "x", "i", "s", "(">>)
        p5 == RemoveLiteral(p4, <<"b", "i", "d", "|">>)
        p6 == RemoveLiteral(p5, <<"t", "e", "m", "p", "l", "a", "t", "e", ".">>)
    IN  RemoveLiteral(p6, <<"v", "a", "r", ".">>)

PrefixWords ==
    <<<<"a", "x", "i", "s">>, <<"b", "i", "d">>,
      <<"i", "t", "e", "m", "T", "y", "p", "e">>,
      <<"p", "r", "e", "d", "e", "f", "i", "n", "e", "d", "A", "l", "t", "e", "r",
        "n", "a", "t", "i", "v", "e", "B", "i", "d">>>>

\* re.sub(r'^(axis|bid|itemType|predefinedAlternativeBid)[:|\|]', '', s)
RemovePrefix(s) ==
    LET hits == {w \in 1..Len(PrefixWords) :
                    /\ StartsAt(s, 1, PrefixWords[w])
                    /\ Len(s) > Len(PrefixWords[w])
                    /\ s[Len(PrefixWords[w]) + 1] \in {":", "|"}}
    IN  IF hits = {} THEN s
        ELSE LET w == CHOOSE h \in hits : \A g \in hits : h <= g
             IN  SubSeq(s, Len(PrefixWords[w]) + 2, Len(s))

\* re.sub(r'\|.*$', '', s)
RECURSIVE CutAtPipe(_)
CutAtPipe(s) ==
    IF s = <<>> \/ Head(s) = "|" THEN <<>> ELSE <<Head(s)>> \o CutAtPipe(Tail(s))

BracketChars == {"(", ")", "{", "}", "[", "]"}

\* re.sub(r'[(){}\[\]]', '', s)
RECURSIVE RemoveBrackets(_)
RemoveBrackets(s) ==
    IF s = <<>> THEN <<>>
    ELSE (IF Head(s) \in BracketChars THEN <<>> ELSE <<Head(s)>>) \o RemoveBrackets(Tail(s))

\* re.sub(run of chars of a class, with, s)
RECURSIVE ReplaceRuns(_, _, _)
ReplaceRuns(s, class, with) ==
    IF s = <<>> THEN <<>>
    ELSE IF Head(s) \in class
         THEN IF Len(s) > 1 /\ s[2] \in class THEN ReplaceRuns(Tail(s), class, with)
              ELSE <<with>> \o ReplaceRuns(Tail(s), class, with)
         ELSE <<Head(s)>> \o ReplaceRuns(Tail(s), class, with)

RECURSIVE StripChar(_, _)
StripChar(s, c) ==
    IF s # <<>> /\ Head(s) = c THEN StripChar(Tail(s), c)
    ELSE IF s # <<>> /\ s[Len(s)] = c THEN StripChar(SubSeq(s, 1, Len(s) - 1), c)
    ELSE s

clean_header_name(raw) ==
    LET no_markers == RemoveTemplateMarkers(raw)
        no_prefix == RemovePrefix(no_markers)
        no_suffix == CutAtPipe(no_prefix)
        no_brackets == RemoveBrackets(no_suffix)
        underscored == ReplaceRuns(Strip(no_brackets), WhiteChars, "_")
        collapsed == ReplaceRuns(underscored, {"_"}, "_")
    IN  Lower(StripChar(collapsed, "_"))

\* the characters header cells are drawn from
HeaderChars == {"V", "a", "r", ".", "(", " "}

MaxHeaderLen == 4

HInit ==
    /\ raw_header \in SeqsUpTo(HeaderChars, MaxHeaderLen)
    /\ cleaned = <<>>
    /\ recleaned = <<>>
    /\ hpc = "raw"
    /\ AIdle
    /\ MIdle
    /\ SIdle
    /\ IIdle
    /\ DIdle

\* cleaned = self.clean_header_name(raw_header)
CleanHeader ==
    /\ hpc = "raw"
    /\ cleaned' = clean_header_name(raw_header)
    /\ hpc' = "cleaned"
    /\ UNCHANGED <<raw_header, recleaned>>
    /\ UNCHANGED <<avars, mvars, svars, ivars, dvars>>

\* the cleaned header is cleaned once more
CleanAgain ==
    /\ hpc = "cleaned"
    /\ recleaned' = clean_header_name(cleaned)
    /\ hpc' = "recleaned"
    /\ UNCHANGED <<raw_header, cleaned>>
    /\ UNCHANGED <<avars, mvars, svars, ivars, dvars>>

HNext == CleanHeader \/ CleanAgain

SpecClean == HInit /\ [][HNext]_vars

\* C7: cleaning an already cleaned header returns the same string.
C7_CleanIdempotent == hpc = "recleaned" => recleaned = cleaned

(***************************************************************************)
(* The store file.  save_store writes the store as a JSON document and     *)
(* load_store parses the document back.  A JSON value is a tagged tree;    *)
(* json.dump chooses the tag from the Python type of the value, which the  *)
(* model takes from the place of the value in the store.  A float is       *)
(* written as a decimal numeral (the model's confidences are scaled        *)
(* integers with a known number of decimal places) or, for a ratio of two  *)
(* counts, as the numeral of that quotient.                                *)
(***************************************************************************)
NoFile == [json |-> "absent"]

RECURSIVE Pow10(_)
Pow10(n) == IF n = 0 THEN 1 ELSE 10 * Pow10(n - 1)

\* a writer that keeps only the integer part of a float
DumpFloatTruncated(x, places) ==
    [json |-> "number", kind |-> "decimal", whole |-> x \div Pow10(places), frac |-> 0,
     places |-> places]

\* float.__repr__: the numeral that reads back as the same float
DumpFloat(x, places) ==
    [json |-> "number", kind |-> "decimal", whole |-> x \div Pow10(places),
     frac |-> x % Pow10(places), places |-> places]

\* the Python type of d[key] for a dict of type ty
MemberType(ty, key) ==
    CASE ty = "store" -> "sheets"
      [] ty = "sheets" -> "sheet"
      [] ty = "sheet" ->
            (CASE key = "header_map" -> "variants"
               [] key = "columns_to_fill" -> "strs"
               [] key = "column_positions" -> "positions"
               [] key = "verifications" -> "verdicts"
               [] key = "enhanced_patterns" -> "patterns"
               [] key = "enhanced_headers_used" -> "bool"
               [] OTHER -> "str")
      [] ty = "variants" -> "strs"
      [] ty = "positions" -> "int"
      [] ty = "verdicts" -> "verdict"
      [] ty = "verdict" ->
            (CASE key = "confidence" -> "hundredths"
               [] key = "pattern_analysis" -> "analysis"
               [] OTHER -> "str")
      [] ty = "analysis" ->
            (CASE key = "fillable" -> "bool"
               [] key = "confidence" -> "tenths"
               [] key \in {"empty_ratio", "filled_ratio"} -> "ratio"
               [] key \in {"empty_count", "filled_count", "total_rows"} -> "int"
               [] key \in {"reasons", "filled_sample_values"} -> "strs"
               [] OTHER -> "str")
      [] ty = "patterns" -> "pattern"
      [] OTHER -> "strs"

\* json.dump(obj)
RECURSIVE Dump(_, _)
Dump(v, ty) ==
    CASE ty = "str" -> [json |-> "string", text |-> v]
      [] ty = "bool" -> [json |-> IF v THEN "true" ELSE "false"]
      [] ty = "int" -> [json |-> "number", kind |-> "int", whole |-> v]
      [] ty = "hundredths" -> DumpFloat(v, 2)
      [] ty = "tenths" -> DumpFloat(v, 1)
      [] ty = "ratio" -> [json |-> "number", kind |-> "quotient", num |-> v[1], den |-> v[2]]
      [] ty = "strs" -> [json |-> "array", items |-> [i \in 1..Len(v) |-> Dump(v[i], "str")]]
      [] OTHER -> [json |-> "object",
                   members |-> [key \in DOMAIN v |-> Dump(v[key], MemberType(ty, key))]]

\* json.load(f)
RECURSIVE Load(_)
Load(node) ==
    CASE node.json = "string" -> node.text
      [] node.json = "true" -> TRUE
      [] node.json = "false" -> FALSE
      [] node.json = "number" ->
            (CASE node.kind = "int" -> node.whole
               [] node.kind = "decimal" -> node.whole * Pow10(node.places) + node.frac
               [] OTHER -> <<node.num, node.den>>)
      [] node.json = "array" -> [i \in 1..Len(node.items) |-> Load(node.items[i])]
      [] OTHER -> [key \in DOMAIN node.members |-> Load(node.members[key])]

\* what save_store leaves in the file
save_store(obj) == Dump(obj, "store")

load_store(file) == IF file = NoFile THEN EmptyStore ELSE Load(file)

(***************************************************************************)
(* The commands.  train learns every discovered pair into a new store and  *)
(* saves it; update loads the store, applies the user's labels and saves   *)
(* it; identify loads the store.                                           *)
(***************************************************************************)
\* the training pairs a data directory can hold
CliPairs == {("s1" :> ColumnsA), ("s1" :> ColumnsB), ("s2" :> ColumnsB)}

\* a pair whose files make enhanced_learn_from_pair raise
Unreadable == [unreadable |-> TRUE]

MaxPairs == 2
MaxCommands == 3

\* a loop over pairs that an exception ends
RECURSIVE TrainedStoreStopsAtError(_, _)
TrainedStoreStopsAtError(store, pairs) ==
    IF pairs = <<>> THEN store
    ELSE IF Head(pairs) = Unreadable THEN store
    ELSE TrainedStoreStopsAtError(
            enhanced_merge_patterns(store, enhanced_learn_from_pair(Head(pairs))), Tail(pairs))

\* the loop over pairs: learn and merge, an exception skips the pair
RECURSIVE TrainedStore(_, _)
TrainedStore(store, pairs) ==
    IF pairs = <<>> THEN store
    ELSE IF Head(pairs) = Unreadable THEN TrainedStore(store, Tail(pairs))
    ELSE TrainedStore(enhanced_merge_patterns(store, enhanced_learn_from_pair(Head(pairs))),
                      Tail(pairs))

SInit ==
    /\ store_file = NoFile
    /\ written = EmptyStore
    /\ loaded = EmptyStore
    /\ found_pairs = <<>>
    /\ last_cmd = "none"
    /\ exit_code = 0
    /\ commands = 0
    /\ AIdle
    /\ MIdle
    /\ HIdle
    /\ IIdle
    /\ DIdle

Train ==
    /\ commands < MaxCommands
    /\ \E pairs \in SeqsUpTo(CliPairs \cup {Unreadable}, MaxPairs) \ {<<>>} :
        LET store == TrainedStore(EmptyStore, pairs)
        IN  /\ found_pairs' = pairs
            /\ store_file' = save_store(store)
            /\ written' = store
    /\ last_cmd' = "train"
    /\ exit_code' = 0
    /\ commands' = commands + 1
    /\ UNCHANGED loaded
    /\ UNCHANGED <<avars, mvars, hvars, ivars, dvars>>

\* train on a directory without pairs
TrainNoPairs ==
    /\ commands < MaxCommands
    /\ last_cmd' = "train"
    /\ found_pairs' = <<>>
    /\ exit_code' = 1
    /\ commands' = commands + 1
    /\ UNCHANGED <<store_file, written, loaded>>
    /\ UNCHANGED <<avars, mvars, hvars, ivars, dvars>>

Update ==
    /\ commands < MaxCommands
    /\ \E upd \in UserLabels :
        LET st == UpdateStore(load_store(store_file), upd)
        IN  /\ store_file' = save_store(st)
            /\ written' = st
    /\ loaded' = load_store(store_file)
    /\ last_cmd' = "update"
    /\ exit_code' = 0
    /\ commands' = commands + 1
    /\ UNCHANGED found_pairs
    /\ UNCHANGED <<avars, mvars, hvars, ivars, dvars>>

\* st = load_store(store) at the start of identify
LoadStore ==
    /\ commands < MaxCommands
    /\ loaded' = load_store(store_file)
    /\ last_cmd' = "identify"
    /\ exit_code' = 0
    /\ commands' = commands + 1
    /\ UNCHANGED <<store_file, written, found_pairs>>
    /\ UNCHANGED <<avars, mvars, hvars, ivars, dvars>>

SNext == Train \/ TrainNoPairs \/ Update \/ LoadStore

SpecStore == SInit /\ [][SNext]_vars

SheetOrder == <<"info", "s1", "s2", "s3">>

\* the keys of a dict in iteration order
RECURSIVE InOrder(_, _)
InOrder(keys, order) ==
    IF order = <<>> THEN <<>>
    ELSE (IF Head(order) \in keys THEN <<Head(order)>> ELSE <<>>) \o InOrder(keys, Tail(order))

\* a local variable: value is computed once and F is applied to the result
Local(value, F(_)) == CHOOSE y \in {F(x) : x \in {value}} : TRUE

RECURSIVE SumOf(_)
SumOf(seq) == IF seq = <<>> THEN 0 ELSE Head(seq) + SumOf(Tail(seq))

RECURSIVE Concat(_)
Concat(seqs) == IF seqs = <<>> THEN <<>> ELSE Head(seqs) \o Concat(Tail(seqs))

One == 1000000

\* any(skip_word in sheet_name.lower() for skip_word in [...])
IsMetadataName(sheet_name) == sheet_name = "info"

find_data_sheets(json_obj) ==
    InOrder({sheet_name \in DOMAIN json_obj :
                /\ ~IsMetadataName(sheet_name)
                /\ json_obj[sheet_name].rows >= 2
                /\ Len(json_obj[sheet_name].columns) >= 3},
            SheetOrder)

\* list_value_columns(headers), as indexes into the 1-based header sequence,
\* without the columns the loops skip for an empty header
ValueColumns(headers) == SelectSeq([i \in 1..Len(headers) |-> i], LAMBDA i : i >= 2 /\ headers[i] # "")

\* difflib.SequenceMatcher(None, a.lower(), b.lower()).ratio() for the headers
\* of the model, in hundredths (2/7 rounded down)
Similarity(a, b) ==
    CASE a = b -> 100
      [] {a, b} = {"date", "rate"} -> 75
      [] {a, b} \in {{"item", "rate"}, {"item", "unit"}, {"date", "item"}} -> 50
      [] "tax" \in {a, b} -> 28
      [] OTHER -> 25

ConfDirect == 950000
VerificationDiscount == 85
ConfPattern == 750000
SemanticMin == 70
SemanticDiscount == 70
EnhancedBonus == 150000

\* _find_semantic_matches(header, verifications)
SemanticMatches(header, verifications, learned_sheet_name) ==
    LET keys == InOrder(DOMAIN verifications, HeaderOrder)
        match(verified_header) ==
            IF Similarity(header, verified_header) > SemanticMin
            THEN <<[confidence |-> Similarity(header, verified_header)
                                     * Get(verifications[verified_header], "confidence", 0)
                                     * SemanticDiscount,
                    match_type |-> "semantic_similarity",
                    source_sheet |-> learned_sheet_name,
                    label |-> Get(verifications[verified_header], "label", "unknown"),
                    method |-> <<"semantic_similarity", Similarity(header, verified_header)>>,
                    is_learned_fillable |-> FALSE,
                    decision_factors |-> <<"semantic_match">>]>>
            ELSE <<>>
    IN  Concat([i \in 1..Len(keys) |-> match(keys[i])])

\* the candidates one learned sheet contributes, in the order they are appended
SheetCandidates(header, learned_sheet_name, learned_data) ==
    LET learned_fillable == Range(Get(learned_data, "columns_to_fill", <<>>))
        verifications == Get(learned_data, "verifications", <<>>)
        enhanced_patterns == Get(learned_data, "enhanced_patterns", <<>>)
        verification == Get(verifications, header, <<>>)
        direct ==
            IF header \in learned_fillable
            THEN <<[confidence |-> ConfDirect,
                    match_type |-> "direct_learned_fillable",
                    source_sheet |-> learned_sheet_name,
                    label |-> Get(verification, "label", "unknown"),
                    method |-> Get(verification, "method", <<"learned">>),
                    is_learned_fillable |-> TRUE,
                    decision_factors |-> <<"direct_match", "learned_fillable">>]>>
            ELSE <<>>
        verified ==
            IF header \in DOMAIN verifications
            THEN <<[confidence |-> Get(verification, "confidence", 0) * 100 * VerificationDiscount,
                    match_type |-> "verification_match",
                    source_sheet |-> learned_sheet_name,
                    label |-> Get(verification, "label", "unknown"),
                    method |-> Get(verification, "method", <<"learned">>),
                    is_learned_fillable |-> header \in learned_fillable,
                    decision_factors |-> <<"verification_match">>]>>
            ELSE <<>>
        pattern ==
            IF header \in DOMAIN enhanced_patterns
            THEN <<[confidence |-> ConfPattern,
                    match_type |-> "enhanced_pattern_match",
                    source_sheet |-> learned_sheet_name,
                    label |-> Get(enhanced_patterns[header], "label", "unknown"),
                    method |-> <<"enhanced_pattern">>,
                    is_learned_fillable |-> header \in learned_fillable,
                    decision_factors |-> <<"enhanced_pattern">>]>>
            ELSE <<>>
    IN  direct \o verified \o pattern
            \o SemanticMatches(header, verifications, learned_sheet_name)

\* a choice of the candidate that was appended first
FirstCandidate(candidates) == candidates[1]

\* max(candidates, key=lambda x: x["confidence"]): the first of the greatest
BestCandidate(candidates) ==
    candidates[CHOOSE i \in 1..Len(candidates) :
                 /\ \A j \in 1..Len(candidates) : candidates[j].confidence <= candidates[i].confidence
                 /\ \A j \in 1..(i - 1) : candidates[j].confidence < candidates[i].confidence]

AllCandidates(header, all_patterns) ==
    LET names == InOrder(DOMAIN all_patterns, SheetOrder)
    IN  Concat([i \in 1..Len(names) |-> SheetCandidates(header, names[i], all_patterns[names[i]])])

\* _find_best_cross_sheet_match(header, all_patterns)
FindBestCrossSheetMatch(header, all_patterns) ==
    Local(AllCandidates(header, all_patterns), LAMBDA candidates :
        IF candidates # <<>>
        THEN Local(BestCandidate(candidates), LAMBDA best :
                [confidence |-> best.confidence,
                 label |-> best.label,
                 method |-> best.method \o <<"cross-sheet">>,
                 is_learned_fillable |-> best.is_learned_fillable,
                 decision_factors |-> best.decision_factors \o <<"cross_sheet_analysis">>,
                 source_patterns |-> {candidates[i].source_sheet : i \in 1..Len(candidates)},
                 best_match_type |-> best.match_type])
        ELSE Local(verify_label(header), LAMBDA live :
                [confidence |-> live.confidence * 10000,
                 label |-> live.label,
                 method |-> live.method,
                 is_learned_fillable |-> FALSE,
                 decision_factors |-> <<"live_verification">>,
                 source_patterns |-> {},
                 best_match_type |-> "fallback"]))

\* a column_result whose decision looks at the confidence only
CrossColumnByConfidence(headers, i, store, threshold, boosted) ==
    Local(FindBestCrossSheetMatch(headers[i], Get(store, "sheets", <<>>)), LAMBDA best_match :
        LET final_confidence ==
                Min(best_match.confidence + (IF boosted THEN EnhancedBonus ELSE 0), One)
            is_fillable == final_confidence >= threshold * 10000
        IN  [position |-> i - 1,
             header |-> headers[i],
             label |-> best_match.label,
             confidence |-> final_confidence,
             verified_by |-> best_match.method,
             decision |-> IF is_fillable THEN "fill" ELSE "unknown",
             learned_fillable |-> best_match.is_learned_fillable,
             decision_factors |-> best_match.decision_factors
                                    \o (IF boosted THEN <<"ai_enhanced_header">> ELSE <<>>),
             enhanced_header |-> boosted,
             source_patterns |-> best_match.source_patterns,
             cross_sheet_analysis |-> TRUE])

\* the column_result of one value column
CrossColumn(headers, i, store, threshold, boosted) ==
    Local(FindBestCrossSheetMatch(headers[i], Get(store, "sheets", <<>>)), LAMBDA best_match :
        LET final_confidence ==
                Min(best_match.confidence + (IF boosted THEN EnhancedBonus ELSE 0), One)
            is_fillable == best_match.is_learned_fillable \/ final_confidence >= threshold * 10000
        IN  [position |-> i - 1,
             header |-> headers[i],
             label |-> best_match.label,
             confidence |-> final_confidence,
             verified_by |-> best_match.method,
             decision |-> IF is_fillable THEN "fill" ELSE "unknown",
             learned_fillable |-> best_match.is_learned_fillable,
             decision_factors |-> best_match.decision_factors
                                    \o (IF boosted THEN <<"ai_enhanced_header">> ELSE <<>>),
             enhanced_header |-> boosted,
             source_patterns |-> best_match.source_patterns,
             cross_sheet_analysis |-> TRUE])

\* _analyze_sheet_with_cross_patterns(json_obj, sheet_name, file_path, threshold)
AnalyzeSheetWithCrossPatterns(json_obj, sheet_name, store, threshold, boosted) ==
    IF sheet_name \notin DOMAIN json_obj THEN [error |-> "sheet not found"]
    ELSE LET headers == json_obj[sheet_name].columns
             value_cols == ValueColumns(headers)
         IN  Local([k \in 1..Len(value_cols) |->
                      CrossColumn(headers, value_cols[k], store, threshold, boosted)],
                   LAMBDA all :
                      [columns |-> SelectSeq(all, LAMBDA c : c.decision = "fill"),
                       unknowns |-> SelectSeq(all, LAMBDA c : c.decision = "unknown"),
                       total_headers |-> Len(headers),
                       analyzed_columns |-> IF headers = <<>> THEN 0 ELSE Len(headers) - 1,
                       cross_sheet_patterns_used |->
                          Cardinality(DOMAIN Get(store, "sheets", <<>>))])

\* len(columns) * avg_confidence of a sheet result
SheetScore(sheet_results) ==
    IF "columns" \in DOMAIN sheet_results
    THEN SumOf([k \in 1..Len(sheet_results.columns) |-> sheet_results.columns[k].confidence])
    ELSE 0

BestSheetFirstScored(all_results, names) ==
    LET scored == {i \in 1..Len(names) :
                     /\ "error" \notin DOMAIN all_results[names[i]]
                     /\ SheetScore(all_results[names[i]]) > 0}
    IN  IF scored = {} THEN "None"
        ELSE names[CHOOSE i \in scored : \A j \in scored : i <= j]

\* the loop that picks best_sheet: the first sheet with the greatest positive score
BestSheet(all_results, names) ==
    LET scored == {i \in 1..Len(names) :
                     /\ "error" \notin DOMAIN all_results[names[i]]
                     /\ SheetScore(all_results[names[i]]) > 0}
    IN  IF scored = {} THEN "None"
        ELSE names[CHOOSE i \in scored :
                     /\ \A j \in scored : SheetScore(all_results[names[j]]) <= SheetScore(all_results[names[i]])
                     /\ \A j \in scored : j < i => SheetScore(all_results[names[j]]) < SheetScore(all_results[names[i]])]

CountOf(all_results, names, field) ==
    SumOf([i \in 1..Len(names) |-> Len(Get(all_results[names[i]], field, <<>>))])

\* CrossSheetAnalyzer.analyze_file followed by _consolidate_cross_sheet_results
cross_sheet_identify_required_columns(json_obj, store, target_sheet, threshold, boosted) ==
    LET available_sheets == find_data_sheets(json_obj)
        sheets_to_analyze ==
            IF target_sheet # "None" /\ target_sheet \in Range(available_sheets)
            THEN <<target_sheet>> ELSE available_sheets
    IN  Local([sheet_name \in Range(sheets_to_analyze) |->
                 AnalyzeSheetWithCrossPatterns(json_obj, sheet_name, store, threshold, boosted)],
              LAMBDA results :
        Local(BestSheet(results, sheets_to_analyze), LAMBDA best_sheet :
            [primary_sheet |-> best_sheet,
             primary_results |-> IF best_sheet = "None" THEN <<>> ELSE results[best_sheet],
             all_sheet_results |-> results,
             summary |->
                [sheets_processed |->
                    Cardinality({n \in DOMAIN results : "error" \notin DOMAIN results[n]}),
                 total_fillable_columns |-> CountOf(results, sheets_to_analyze, "columns"),
                 total_unknown_columns |-> CountOf(results, sheets_to_analyze, "unknowns"),
                 cross_sheet_analysis |-> TRUE,
                 best_sheet |-> best_sheet,
                 best_sheet_score |-> IF best_sheet = "None" THEN 0
                                      ELSE SheetScore(results[best_sheet])],
             cross_sheet_analysis |-> TRUE]))

LearnedWeight == 700000
VerificationWeight == 30
PatternWeight == 20
ValuePatternBonus == 100000
ThresholdRelax == 80

\* the entry of one value column in enhanced_identify_required_columns
EnhancedColumn(headers, i, learned_sheet, threshold, boosted) ==
    LET raw == headers[i]
        learned_raws == Range(Get(learned_sheet, "columns_to_fill", <<>>))
        enhanced_patterns == Get(learned_sheet, "enhanced_patterns", <<>>)
        learned_verification == Get(Get(learned_sheet, "verifications", <<>>), raw, <<>>)
        has_verification == DOMAIN learned_verification # {}
        live == verify_label(raw)
        pa == Get(learned_verification, "pattern_analysis", <<>>)
        confidence_score ==
            (IF raw \in learned_raws THEN LearnedWeight ELSE 0)
            + (IF has_verification
               THEN Get(learned_verification, "confidence", 0) * 100 * VerificationWeight
                    + (IF "pattern_analysis" \in DOMAIN learned_verification
                       THEN Get(pa, "confidence", 0) * 1000 * PatternWeight ELSE 0)
               ELSE live.confidence * 100 * VerificationWeight)
            + (IF raw \in DOMAIN enhanced_patterns
                  /\ Get(enhanced_patterns[raw], "value_types", <<>>) # <<>>
               THEN ValuePatternBonus ELSE 0)
            + (IF boosted THEN EnhancedBonus ELSE 0)
        final_confidence == Min(confidence_score, One)
        is_fillable == raw \in learned_raws \/ final_confidence >= threshold * 100 * ThresholdRelax
    IN  [position |-> i - 1,
         header |-> raw,
         label |-> IF has_verification THEN Get(learned_verification, "label", "unknown")
                   ELSE live.label,
         confidence |-> final_confidence,
         verified_by |-> IF has_verification
                         THEN Get(learned_verification, "method", <<"learned">>)
                         ELSE live.method,
         decision |-> IF is_fillable THEN "fill" ELSE "unknown",
         learned_fillable |-> is_fillable /\ raw \in learned_raws,
         decision_factors |->
            (IF raw \in learned_raws THEN <<"learned_fillable">> ELSE <<>>)
            \o (IF has_verification /\ "pattern_analysis" \in DOMAIN learned_verification
                THEN Take(Get(pa, "reasons", <<>>), 2) ELSE <<>>)
            \o (IF raw \in DOMAIN enhanced_patterns
                   /\ Get(enhanced_patterns[raw], "value_types", <<>>) # <<>>
                THEN <<"has_value_patterns">> ELSE <<>>)
            \o (IF boosted THEN <<"ai_enhanced_header">> ELSE <<>>),
         enhanced_header |-> boosted]

\* the entry of one value column in basic_identify_required_columns
BasicColumn(headers, i, learned_sheet, threshold) ==
    LET raw == headers[i]
        candidate == raw \in Range(Get(learned_sheet, "columns_to_fill", <<>>))
        learned_verification == Get(Get(learned_sheet, "verifications", <<>>), raw, <<>>)
        has_verification == DOMAIN learned_verification # {}
        live == verify_label(raw)
        conf == IF has_verification THEN Get(learned_verification, "confidence", 0) * 10000
                ELSE live.confidence * 10000
    IN  [position |-> i - 1,
         header |-> raw,
         label |-> IF has_verification THEN Get(learned_verification, "label", "unknown")
                   ELSE live.label,
         confidence |-> conf,
         verified_by |-> IF has_verification
                         THEN Get(learned_verification, "method", <<"learned">>)
                         ELSE live.method,
         decision |-> IF candidate \/ conf >= threshold * 10000 THEN "fill" ELSE "unknown",
         learned_fillable |-> candidate]

\* the sheets both sheet-first functions process, <<>> for "No matching sheets found"
SheetsToProcess(json_obj, store, sheet_name) ==
    IF sheet_name = "None"
    THEN SelectSeq(find_data_sheets(json_obj),
                   LAMBDA sheet : sheet \in DOMAIN Get(store, "sheets", <<>>))
    ELSE <<sheet_name>>

NoMatchingSheets(json_obj, store) ==
    [error |-> "No matching sheets found",
     available_sheets |-> find_data_sheets(json_obj),
     learned_sheets |-> InOrder(DOMAIN Get(store, "sheets", <<>>), SheetOrder)]

\* the body of `for current_sheet in sheets_to_process`, with the column
\* entries of the function that runs it
SheetFirstSheet(json_obj, current_sheet, all) ==
    IF current_sheet \notin DOMAIN json_obj THEN [error |-> "sheet not found in file"]
    ELSE [columns |-> SelectSeq(all, LAMBDA c : c.decision = "fill"),
          unknowns |-> SelectSeq(all, LAMBDA c : c.decision = "unknown"),
          total_headers |-> Len(json_obj[current_sheet].columns),
          analyzed_columns |-> IF json_obj[current_sheet].columns = <<>> THEN 0
                               ELSE Len(json_obj[current_sheet].columns) - 1]

enhanced_identify_required_columns(json_obj, store, sheet_name, threshold, boosted) ==
    LET sheets_to_process == SheetsToProcess(json_obj, store, sheet_name)
        learned_of(sheet) == Get(Get(store, "sheets", <<>>), sheet, <<>>)
        entries(sheet) ==
            IF sheet \notin DOMAIN json_obj THEN <<>>
            ELSE LET headers == json_obj[sheet].columns
                     value_cols == ValueColumns(headers)
                 IN  [k \in 1..Len(value_cols) |->
                        EnhancedColumn(headers, value_cols[k], learned_of(sheet), threshold, boosted)]
        sheets == [sheet \in Range(sheets_to_process) |->
                     SheetFirstSheet(json_obj, sheet, entries(sheet))]
    IN  IF sheets_to_process = <<>> THEN NoMatchingSheets(json_obj, store)
        ELSE [sheets |-> sheets,
              summary |-> [total_fillable_columns |-> CountOf(sheets, sheets_to_process, "columns"),
                           total_unknown_columns |-> CountOf(sheets, sheets_to_process, "unknowns"),
                           sheets_processed |-> Len(sheets_to_process),
                           enhancement_used |-> TRUE]]

basic_identify_required_columns(json_obj, store, sheet_name, threshold) ==
    LET sheets_to_process == SheetsToProcess(json_obj, store, sheet_name)
        learned_of(sheet) == Get(Get(store, "sheets", <<>>), sheet, <<>>)
        entries(sheet) ==
            IF sheet \notin DOMAIN json_obj THEN <<>>
            ELSE LET headers == json_obj[sheet].columns
                     value_cols == ValueColumns(headers)
                 IN  [k \in 1..Len(value_cols) |->
                        BasicColumn(headers, value_cols[k], learned_of(sheet), threshold)]
        sheets == [sheet \in Range(sheets_to_process) |->
                     SheetFirstSheet(json_obj, sheet, entries(sheet))]
    IN  IF sheets_to_process = <<>> THEN NoMatchingSheets(json_obj, store)
        ELSE [sheets |-> sheets,
              summary |-> [sheets_processed |-> Len(sheets_to_process),
                           total_fillable_columns |-> CountOf(sheets, sheets_to_process, "columns"),
                           total_unknown_columns |-> CountOf(sheets, sheets_to_process, "unknowns")]]

\* a test of the average confidence against the threshold itself
GoodCrossSheetResultAtThreshold(cross_sheet_results, threshold) ==
    LET primary_results == cross_sheet_results.primary_results
    IN  /\ "columns" \in DOMAIN primary_results
        /\ primary_results.columns # <<>>
        /\ SheetScore(primary_results) >= threshold * 10000 * Len(primary_results.columns)

\* primary_results has fill columns whose average confidence is >= threshold * 0.8
GoodCrossSheetResult(cross_sheet_results, threshold) ==
    LET primary_results == cross_sheet_results.primary_results
    IN  /\ "columns" \in DOMAIN primary_results
        /\ primary_results.columns # <<>>
        /\ SheetScore(primary_results)
             >= threshold * 100 * ThresholdRelax * Len(primary_results.columns)

identify_required_columns(json_obj, store, sheet_name, threshold, boosted) ==
    Local(cross_sheet_identify_required_columns(json_obj, store, sheet_name, threshold, boosted),
          LAMBDA cross_sheet_results :
            IF GoodCrossSheetResult(cross_sheet_results, threshold) THEN cross_sheet_results
            ELSE enhanced_identify_required_columns(json_obj, store, sheet_name, threshold, boosted))

(***************************************************************************)
(* One identification call: a target document, a loaded store, a requested *)
(* sheet (or none), a threshold, and one of the four entry points.         *)
(***************************************************************************)
Documents ==
    {("s1" :> [columns |-> <<"item", "rate", "unit">>, rows |-> 3]),
     \* a template that has only its header row
     ("s1" :> [columns |-> <<"item", "rate", "unit">>, rows |-> 1]),
     ("s1" :> [columns |-> <<"item", "rate", "date">>, rows |-> 3])
        @@ ("s2" :> [columns |-> <<"item", "cost", "", "tax">>, rows |-> 3]),
     ("info" :> [columns |-> <<"item", "cost", "rate">>, rows |-> 3])
        @@ ("s2" :> [columns |-> <<"item", "tax", "cost">>, rows |-> 2])}

LoadedStores ==
    {EmptyStore,
     TrainedStore(EmptyStore, <<"s1" :> ColumnsA>>),
     TrainedStore(EmptyStore, <<"s2" :> ColumnsB>>),
     TrainedStore(EmptyStore, <<"s1" :> ColumnsA, "s2" :> ColumnsB>>),
     UpdateStore(TrainedStore(EmptyStore, <<"s2" :> ColumnsB>>),
                 "s1" :> <<<<"unit", "each">>, <<"cost", "price">>>>)}

RequestedSheets == {"None", "s1", "s2", "s3"}

Thresholds == {50, 70, 80, 110, 150}

IInit ==
    /\ document \in Documents
    /\ pattern_store \in LoadedStores
    /\ requested \in RequestedSheets
    /\ cutoff \in Thresholds
    /\ ai_headers \in BOOLEAN
    /\ entry_point = "none"
    /\ report = <<>>
    /\ ipc = "call"
    /\ shown = <<>>
    /\ AIdle
    /\ MIdle
    /\ HIdle
    /\ SIdle
    /\ DIdle

\* the identify command's handling of the result: a cross-sheet result is
\* converted to the standard format, with its primary sheet only
identify_result(result, is_cross_sheet) ==
    IF is_cross_sheet /\ "primary_results" \in DOMAIN result
    THEN [sheets |-> (result.primary_sheet :> result.primary_results),
          summary |-> Get(result, "summary", <<>>),
          cross_sheet_analysis |-> TRUE]
    ELSE result

Returned(name) ==
    /\ entry_point' = name
    /\ ipc' = "done"
    /\ shown' = identify_result(report',
                                CASE name = "cross_sheet_identify_required_columns" -> TRUE
                                  [] name = "enhanced_identify_required_columns" -> FALSE
                                  [] OTHER -> Get(report', "cross_sheet_analysis", FALSE))
    /\ UNCHANGED <<document, pattern_store, requested, cutoff, ai_headers>>
    /\ UNCHANGED <<avars, mvars, hvars, svars, dvars>>

\* identify --cross-sheet
CrossSheetIdentify ==
    /\ ipc = "call"
    /\ report' = cross_sheet_identify_required_columns(document, pattern_store, requested,
                                                       cutoff, ai_headers)
    /\ Returned("cross_sheet_identify_required_columns")

\* identify --enhanced-headers
EnhancedIdentify ==
    /\ ipc = "call"
    /\ report' = enhanced_identify_required_columns(document, pattern_store, requested,
                                                    cutoff, ai_headers)
    /\ Returned("enhanced_identify_required_columns")

BasicIdentify ==
    /\ ipc = "call"
    /\ ~ai_headers
    /\ report' = basic_identify_required_columns(document, pattern_store, requested, cutoff)
    /\ Returned("basic_identify_required_columns")

\* identify without flags
Identify ==
    /\ ipc = "call"
    /\ report' = identify_required_columns(document, pattern_store, requested, cutoff, ai_headers)
    /\ Returned("identify_required_columns")

INext == CrossSheetIdentify \/ EnhancedIdentify \/ BasicIdentify \/ Identify

SpecIdentify == IInit /\ [][INext]_vars

(***************************************************************************)
(* Claims about identification (checked under SpecIdentify)                *)
(***************************************************************************)
\* what a report says about one sheet, <<>> if it does not mention it
SheetResult(rep, sheet) ==
    IF "all_sheet_results" \in DOMAIN rep THEN Get(rep.all_sheet_results, sheet, <<>>)
    ELSE IF "sheets" \in DOMAIN rep THEN Get(rep.sheets, sheet, <<>>)
    ELSE <<>>

\* the sheets of the document a call is about
SheetsInScope ==
    IF requested = "None" THEN Range(find_data_sheets(document))
    ELSE {requested} \cap DOMAIN document

LearnedSomewhere(header) ==
    \E sheet \in DOMAIN pattern_store.sheets :
        header \in Range(Get(pattern_store.sheets[sheet], "columns_to_fill", <<>>))

\* C9: whatever the threshold, identify_required_columns reports every value
\* column whose header is in the fillable list of some learned sheet with
\* decision "fill" and confidence >= 0.7.
C9_LearnedHeaderIsFill ==
    (ipc = "done" /\ entry_point = "identify_required_columns")
        => \A sheet \in SheetsInScope : \A i \in 2..Len(document[sheet].columns) :
              LearnedSomewhere(document[sheet].columns[i])
                 => \E k \in 1..Len(Get(SheetResult(report, sheet), "columns", <<>>)) :
                       LET column == SheetResult(report, sheet).columns[k]
                       IN  /\ column.position = i - 1
                           /\ column.header = document[sheet].columns[i]
                           /\ column.decision = "fill"
                           /\ column.confidence >= 700000

\* C10: when the requested sheet is not in the document, every entry point
\* returns a report with an error entry for that sheet.
C10_MissingSheetError ==
    (ipc = "done" /\ requested # "None" /\ requested \notin DOMAIN document)
        => "error" \in DOMAIN SheetResult(report, requested)

(***************************************************************************)
(* Enhanced header detection (EnhancedHeaderDetector).  A sheet has its    *)
(* column identifiers and its data rows; a row is the sequence of its      *)
(* cells col_0, col_1, ... and a cell is a sequence of characters.  A      *)
(* score is a fraction <<numerator, denominator>> with a positive          *)
(* denominator; scores are compared by cross-multiplication.  Row indexes  *)
(* in candidates count from 0 as in the code.                              *)
(***************************************************************************)
\* lit in s, for a non-empty lit
Contains(s, lit) == \E i \in 1..Len(s) : StartsAt(s, i, lit)

\* val = str(row.get(f'col_{i}', '')).strip(), kept if val and val.lower() != 'nan'
RowValues(row, column_count) ==
    SelectSeq([i \in 1..column_count |-> IF i <= Len(row) THEN Strip(row[i]) ELSE <<>>],
              LAMBDA val : val # <<>> /\ Lower(val) # <<"n", "a", "n">>)

\* self.business_keywords, category by category
business_keywords ==
    <<
     \* logistics
     <<<<"l", "a", "n", "e">>, <<"s", "e", "r", "v", "i", "c", "e">>,
       <<"p", "o", "r", "t">>, <<"o", "r", "i", "g", "i", "n">>,
       <<"d", "e", "s", "t", "i", "n", "a", "t", "i", "o", "n">>,
       <<"c", "a", "r", "r", "i", "e", "r">>,
       <<"f", "r", "e", "i", "g", "h", "t">>,
       <<"s", "h", "i", "p", "m", "e", "n", "t">>,
       <<"t", "r", "a", "n", "s", "p", "o", "r", "t">>,
       <<"r", "o", "u", "t", "i", "n", "g">>, <<"m", "o", "d", "e">>,
       <<"v", "e", "s", "s", "e", "l">>>>,
     \* financial
     <<<<"c", "o", "s", "t">>, <<"p", "r", "i", "c", "e">>,
       <<"r", "a", "t", "e">>, <<"f", "e", "e">>,
       <<"c", "h", "a", "r", "g", "e">>, <<"a", "m", "o", "u", "n", "t">>,
       <<"t", "o", "t", "a", "l">>, <<"m", "i", "n", "i", "m", "u", "m">>,
       <<"s", "u", "r", "c", "h", "a", "r", "g", "e">>,
       <<"c", "u", "r", "r", "e", "n", "c", "y">>,
       <<"b", "i", "l", "l", "i", "n", "g">>,
       <<"p", "a", "y", "m", "e", "n", "t">>,
       <<"i", "n", "v", "o", "i", "c", "e">>>>,
     \* measurement
     <<<<"c", "b", "m">>, <<"v", "o", "l", "u", "m", "e">>,
       <<"w", "e", "i", "g", "h", "t">>, <<"k", "i", "l", "o", "s">>,
       <<"p", "o", "u", "n", "d", "s">>, <<"t", "o", "n", "s">>,
       <<"c", "u", "b", "i", "c">>, <<"m", "e", "t", "e", "r">>,
       <<"f", "e", "e", "t">>,
       <<"d", "i", "m", "e", "n", "s", "i", "o", "n", "s">>,
       <<"l", "e", "n", "g", "t", "h">>, <<"w", "i", "d", "t", "h">>,
       <<"h", "e", "i", "g", "h", "t">>>>,
     \* temporal
     <<<<"d", "a", "t", "e">>, <<"t", "i", "m", "e">>,
       <<"e", "f", "f", "e", "c", "t", "i", "v", "e">>,
       <<"e", "x", "p", "i", "r", "a", "t", "i", "o", "n">>,
       <<"v", "a", "l", "i", "d">>, <<"p", "e", "r", "i", "o", "d">>,
       <<"d", "u", "r", "a", "t", "i", "o", "n">>,
       <<"s", "c", "h", "e", "d", "u", "l", "e">>,
       <<"s", "t", "a", "r", "t">>, <<"e", "n", "d">>,
       <<"f", "r", "o", "m">>, <<"t", "o">>>>,
     \* identifiers
     <<<<"i", "d">>, <<"c", "o", "d", "e">>,
       <<"n", "u", "m", "b", "e", "r">>,
       <<"r", "e", "f", "e", "r", "e", "n", "c", "e">>,
       <<"t", "r", "a", "c", "k", "i", "n", "g">>,
       <<"l", "a", "n", "e", "_", "i", "d">>, <<"i", "t", "e", "m">>,
       <<"s", "k", "u">>, <<"p", "a", "r", "t">>,
       <<"m", "o", "d", "e", "l">>, <<"s", "e", "r", "i", "a", "l">>>>,
     \* geographic
     <<<<"c", "o", "u", "n", "t", "r", "y">>,
       <<"r", "e", "g", "i", "o", "n">>, <<"z", "o", "n", "e">>,
       <<"a", "r", "e", "a">>, <<"l", "o", "c", "a", "t", "i", "o", "n">>,
       <<"a", "d", "d", "r", "e", "s", "s">>, <<"c", "i", "t", "y">>,
       <<"s", "t", "a", "t", "e">>,
       <<"c", "o", "n", "t", "i", "n", "e", "n", "t">>,
       <<"t", "e", "r", "r", "i", "t", "o", "r", "y">>>>,
     \* business
     <<<<"q", "u", "o", "t", "e">>, <<"b", "i", "d">>,
       <<"p", "r", "o", "p", "o", "s", "a", "l">>,
       <<"c", "o", "n", "t", "r", "a", "c", "t">>,
       <<"a", "g", "r", "e", "e", "m", "e", "n", "t">>,
       <<"t", "e", "r", "m", "s">>,
       <<"c", "o", "n", "d", "i", "t", "i", "o", "n", "s">>,
       <<"c", "l", "i", "e", "n", "t">>,
       <<"c", "u", "s", "t", "o", "m", "e", "r">>,
       <<"v", "e", "n", "d", "o", "r">>,
       <<"s", "u", "p", "p", "l", "i", "e", "r">>>>,
     \* operational
     <<<<"s", "t", "a", "t", "u", "s">>, <<"t", "y", "p", "e">>,
       <<"c", "a", "t", "e", "g", "o", "r", "y">>,
       <<"c", "l", "a", "s", "s">>, <<"g", "r", "a", "d", "e">>,
       <<"l", "e", "v", "e", "l">>,
       <<"p", "r", "i", "o", "r", "i", "t", "y">>,
       <<"u", "r", "g", "e", "n", "c", "y">>,
       <<"r", "e", "q", "u", "i", "r", "e", "m", "e", "n", "t", "s">>>>
    >>

\* a keyword test that does not lower the value first
HasKeywordCaseSensitive(value) ==
    \E c \in 1..Len(business_keywords) : \E k \in 1..Len(business_keywords[c]) :
        Contains(value, business_keywords[c][k])

\* any(keyword in value_lower for keyword in keywords) for some category
HasKeyword(value) ==
    Local(Lower(value), LAMBDA value_lower :
        \E c \in 1..Len(business_keywords) : \E k \in 1..Len(business_keywords[c]) :
            Contains(value_lower, business_keywords[c][k]))

ScoreAbove(a, b) == a[1] * b[2] > b[1] * a[2]

\* c is put behind the candidates that score at least as much
RECURSIVE InsertByScore(_, _)
InsertByScore(ranked, c) ==
    IF ranked = <<>> THEN <<c>>
    ELSE IF ScoreAbove(c.score, Head(ranked).score) THEN <<c>> \o ranked
    ELSE <<Head(ranked)>> \o InsertByScore(Tail(ranked), c)

\* sorted(candidates, key=lambda x: x[1], reverse=True): stable
RECURSIVE SortByScore(_)
SortByScore(candidates) ==
    IF candidates = <<>> THEN <<>>
    ELSE InsertByScore(SortByScore(SubSeq(candidates, 1, Len(candidates) - 1)),
                       candidates[Len(candidates)])

RowLimit == 50
MinValues == 3
KeywordWeight == 40
KeywordThreshold == 15

\* strategy_1_pattern_based(sheet_data)
strategy_1_pattern_based(sheet) ==
    LET candidate(r) ==
            Local(RowValues(sheet.data[r], Len(sheet.columns)), LAMBDA values :
                IF Len(values) < MinValues THEN <<>>
                ELSE Local(Len(SelectSeq(values, HasKeyword)), LAMBDA keyword_matches :
                        IF keyword_matches * KeywordWeight > KeywordThreshold * Len(values)
                        THEN <<[row_idx |-> r - 1,
                                score |-> <<keyword_matches * KeywordWeight, Len(values)>>,
                                strategy |-> "pattern_based",
                                details |-> [keyword_matches |-> keyword_matches]]>>
                        ELSE <<>>))
    IN  SortByScore(Concat([r \in 1..Min(RowLimit, Len(sheet.data)) |-> candidate(r)]))

CoverageWeight == 30
UniquenessWeight == 25
UnderscoreWeight == 20
LengthBonus == 15
MinHeaderLength == 3
MaxHeaderLength == 25
StructureThreshold == 20

\* strategy_2_structural_analysis(sheet_data); the score
\* coverage*30 + uniqueness*25 + underscore_ratio*20 (+ 15) is taken over the
\* common denominator len(values) * column_count
strategy_2_structural_analysis(sheet) ==
    LET column_count == Len(sheet.columns)
        candidate(r) ==
            Local(RowValues(sheet.data[r], column_count), LAMBDA values :
                IF Len(values) < MinValues THEN <<>>
                ELSE LET n == Len(values)
                         underscored == Len(SelectSeq(values, LAMBDA v : Contains(v, <<"_">>)))
                         total_length == SumOf([i \in 1..n |-> Len(values[i])])
                         in_band == /\ MinHeaderLength * n <= total_length
                                    /\ total_length <= MaxHeaderLength * n
                         numerator ==
                            CoverageWeight * n * n
                            + UniquenessWeight * Cardinality(Range(values)) * column_count
                            + UnderscoreWeight * underscored * column_count
                            + (IF in_band THEN LengthBonus * n * column_count ELSE 0)
                     IN  IF numerator > StructureThreshold * n * column_count
                         THEN <<[row_idx |-> r - 1,
                                 score |-> <<numerator, n * column_count>>,
                                 strategy |-> "structural",
                                 details |-> [uniqueness |-> <<Cardinality(Range(values)), n>>]]>>
                         ELSE <<>>)
    IN  SortByScore(Concat([r \in 1..Min(RowLimit, Len(sheet.data)) |-> candidate(r)]))

\* any(re.search(pattern, val) for pattern in self.template_patterns)
HasTemplateMarker(val) ==
    LET HasDelimited(open, close) ==
            \E i \in 1..Len(val) :
                /\ StartsAt(val, i, open)
                /\ \E j \in (i + Len(open))..Len(val) : StartsAt(val, j, close)
    IN  \/ HasDelimited(<<"<", "<">>, <<">", ">">>)
        \/ HasDelimited(<<"{", "{">>, <<"}", "}">>)
        \/ HasDelimited(<<"$", "{">>, <<"}">>)
        \/ Contains(val, <<"a", "x", "i", "s", "(">>)
        \/ Contains(val, <<"b", "i", "d", "|">>)
        \/ Contains(val, <<"t", "e", "m", "p", "l", "a", "t", "e", ".">>)
        \/ Contains(val, <<"v", "a", "r", ".">>)

TemplateWeight == 50
TemplateThreshold == 10

\* strategy_3_template_pattern(sheet_data)
strategy_3_template_pattern(sheet) ==
    LET candidate(r) ==
            Local(RowValues(sheet.data[r], Len(sheet.columns)), LAMBDA values :
                IF Len(values) < MinValues THEN <<>>
                ELSE Local(Len(SelectSeq(values, HasTemplateMarker)), LAMBDA template_matches :
                        IF template_matches * TemplateWeight > TemplateThreshold * Len(values)
                        THEN <<[row_idx |-> r - 1,
                                score |-> <<template_matches * TemplateWeight, Len(values)>>,
                                strategy |-> "template_pattern",
                                details |-> [template_matches |-> template_matches]]>>
                        ELSE <<>>))
    IN  SortByScore(Concat([r \in 1..Min(RowLimit, Len(sheet.data)) |-> candidate(r)]))

HistoryWeight == 30

\* strategy_4_historical_learning(sheet_data, file_name), given the
\* learning_patterns of the decision history.  pattern_matches is counted in
\* halves: +1 for the first positive indicator found in the cleaned value,
\* -0.5 for every negative indicator found in it.
strategy_4_historical_learning(sheet, learning_patterns) ==
    LET halves(value) ==
            Local(Lower(clean_header_name(value)), LAMBDA value_clean :
                (IF \E p \in 1..Len(learning_patterns.positive_indicators) :
                        Contains(value_clean, Lower(learning_patterns.positive_indicators[p]))
                 THEN 2 ELSE 0)
                - Len(SelectSeq(learning_patterns.negative_indicators,
                                LAMBDA pattern : Contains(value_clean, Lower(pattern)))))
        candidate(r) ==
            Local(RowValues(sheet.data[r], Len(sheet.columns)), LAMBDA values :
                IF Len(values) < MinValues THEN <<>>
                ELSE Local(SumOf([i \in 1..Len(values) |-> halves(values[i])]),
                           LAMBDA pattern_matches :
                        IF pattern_matches > 0
                        THEN <<[row_idx |-> r - 1,
                                score |-> <<pattern_matches * HistoryWeight, 2 * Len(values)>>,
                                strategy |-> "historical_learning",
                                details |-> [pattern_matches |-> <<pattern_matches, 2>>]]>>
                        ELSE <<>>))
    IN  SortByScore(Concat([r \in 1..Min(RowLimit, Len(sheet.data)) |-> candidate(r)]))

\* f'col_{i}'
ColumnKey(i) == <<"col_0", "col_1", "col_2", "col_3">>[i + 1]

\* extract_clean_headers(sheet_data, row_idx): the items of the mapping
\* col_i -> cleaned header, in insertion order
extract_clean_headers(sheet, row_idx) ==
    IF row_idx >= Len(sheet.data) THEN <<>>
    ELSE LET header_row == sheet.data[row_idx + 1]
             entry(i) ==
                LET raw == IF i <= Len(header_row) THEN Strip(header_row[i]) ELSE <<>>
                IN  IF raw # <<>> /\ Lower(raw) # <<"n", "a", "n">> /\ clean_header_name(raw) # <<>>
                    THEN <<<<ColumnKey(i - 1), clean_header_name(raw)>>>> ELSE <<>>
         IN  Concat([i \in 1..Len(sheet.columns) |-> entry(i)])

\* the loop that keeps the first candidate of every row index
RECURSIVE FirstPerRow(_, _)
FirstPerRow(candidates, seen_rows) ==
    IF candidates = <<>> THEN <<>>
    ELSE IF Head(candidates).row_index \in seen_rows
         THEN FirstPerRow(Tail(candidates), seen_rows)
         ELSE <<Head(candidates)>>
                 \o FirstPerRow(Tail(candidates), seen_rows \cup {Head(candidates).row_index})

KeywordTop == 2
StructuralTop == 2
TemplateTop == 1
HistoricalTop == 1
ValidatorTop == 3
ReportedTop == 5

UniqueCandidatesUnsorted(sheet, s1, s2, s3, s4) ==
    LET TopCandidates(results, top) ==
            [k \in 1..Min(top, Len(results)) |->
                [row_index |-> results[k].row_idx,
                 score |-> results[k].score,
                 strategy |-> results[k].strategy,
                 analysis |-> results[k].details,
                 detected_headers |-> extract_clean_headers(sheet, results[k].row_idx)]]
    IN  FirstPerRow(TopCandidates(s1, KeywordTop)
                    \o TopCandidates(s2, StructuralTop)
                    \o TopCandidates(s3, TemplateTop)
                    \o TopCandidates(s4, HistoricalTop),
                    {})

\* all_candidates and unique_candidates of detect_headers_enhanced
UniqueCandidates(sheet, s1, s2, s3, s4) ==
    LET TopCandidates(results, top) ==
            [k \in 1..Min(top, Len(results)) |->
                [row_index |-> results[k].row_idx,
                 score |-> results[k].score,
                 strategy |-> results[k].strategy,
                 analysis |-> results[k].details,
                 detected_headers |-> extract_clean_headers(sheet, results[k].row_idx)]]
    IN  FirstPerRow(SortByScore(TopCandidates(s1, KeywordTop)
                                \o TopCandidates(s2, StructuralTop)
                                \o TopCandidates(s3, TemplateTop)
                                \o TopCandidates(s4, HistoricalTop)),
                    {})

(***************************************************************************)
(* The validator.  A response text is a sequence of segments: prose        *)
(* without braces, the text of a well-formed JSON object (kept with the    *)
(* value it denotes), text in braces that is not JSON, a lone opening      *)
(* brace or a lone closing brace.  NoContent is a response whose content   *)
(* is None.  Confidences are in hundredths.  A mapping is the sequence of  *)
(* its (key, header) items.                                                *)
(***************************************************************************)
NoContent == <<[kind |-> "none"]>>

FallbackConfidence == 50

\* parse_openai_response(response_text): re.search(r'\{.*\}', text, re.DOTALL)
\* matches from the first opening brace to the last closing brace, and
\* json.loads accepts the match only if it is one well-formed object
parse_openai_response(response_text) ==
    LET Fallback == [validated_mapping |-> <<>>, confidence |-> FallbackConfidence,
                     reasoning |-> "response_text", improvements |-> <<>>]
        ParsingError == [validated_mapping |-> <<>>, confidence |-> 0,
                         reasoning |-> "Parsing error", improvements |-> <<>>]
        opens == {i \in 1..Len(response_text) :
                     response_text[i].kind \in {"object", "broken", "open"}}
        closes == {i \in 1..Len(response_text) :
                     response_text[i].kind \in {"object", "broken", "close"}}
        start == CHOOSE i \in opens : \A j \in opens : i <= j
        end == CHOOSE i \in closes : \A j \in closes : j <= i
    IN  IF response_text = NoContent THEN ParsingError
        ELSE IF opens = {} \/ closes = {} \/ end < start THEN Fallback
        ELSE IF start = end /\ response_text[start].kind = "object"
             THEN response_text[start].value
             ELSE ParsingError

\* header.replace('_', ' ').split()
RECURSIVE SplitWords(_, _)
SplitWords(s, word) ==
    IF s = <<>> THEN (IF word = <<>> THEN <<>> ELSE <<word>>)
    ELSE IF Head(s) \in WhiteChars \cup {"_"}
         THEN (IF word = <<>> THEN <<>> ELSE <<word>>) \o SplitWords(Tail(s), <<>>)
         ELSE SplitWords(Tail(s), Append(word, Head(s)))

\* seq[-n:]
LastN(seq, n) == SubSeq(seq, Len(seq) - Min(n, Len(seq)) + 1, Len(seq))

MinPartLength == 2

RECURSIVE AddIndicators(_, _)
AddIndicators(indicators, parts) ==
    IF parts = <<>> THEN indicators
    ELSE AddIndicators(IF Len(Head(parts)) > MinPartLength /\ Head(parts) \notin Range(indicators)
                       THEN Append(indicators, Head(parts)) ELSE indicators,
                       Tail(parts))

PositiveLimit == 100
NegativeLimit == 50

\* the loop of update_learning_patterns over validated_mapping.items()
RECURSIVE LearnFromMapping(_, _)
LearnFromMapping(indicators, items) ==
    IF items = <<>> THEN indicators
    ELSE LearnFromMapping(IF Len(Head(items)[2]) > MinPartLength
                          THEN AddIndicators(indicators, SplitWords(Head(items)[2], <<>>))
                          ELSE indicators,
                          Tail(items))

update_learning_patterns_oldest(learning_patterns, ai_result) ==
    [learning_patterns EXCEPT
        !.positive_indicators =
            Take(LearnFromMapping(@, Get(ai_result, "validated_mapping", <<>>)), PositiveLimit),
        !.negative_indicators = Take(@, NegativeLimit)]

update_learning_patterns(learning_patterns, ai_result) ==
    [learning_patterns EXCEPT
        !.positive_indicators =
            LastN(LearnFromMapping(@, Get(ai_result, "validated_mapping", <<>>)), PositiveLimit),
        !.negative_indicators = LastN(@, NegativeLimit)]

\* load_decision_history() when there is no history file
NewHistory ==
    [total_decisions |-> 0,
     decisions |-> <<>>,
     learning_patterns |-> [positive_indicators |-> <<>>, negative_indicators |-> <<>>]]

\* record_openai_decision(file_name, context, ai_result) at the second `stamp`;
\* the result is the history in memory, which save_decision_history writes
record_openai_decision(decisions_log, file_name, stamp, ai_result) ==
    [total_decisions |-> decisions_log.total_decisions + 1,
     decisions |-> Put(decisions_log.decisions, <<file_name, stamp>>,
                       [file_name |-> file_name,
                        timestamp |-> stamp,
                        ai_result |-> ai_result,
                        confidence |-> Get(ai_result, "confidence", 0)]),
     learning_patterns |-> update_learning_patterns(decisions_log.learning_patterns, ai_result)]

\* a validator step that records the decision in a finally clause
strategy_5_records_failures(client, answer, decisions_log, file_name, stamp) ==
    IF client = "none"
    THEN [result |-> [validated_mapping |-> <<>>, confidence |-> 0,
                      reasoning |-> "No OpenAI client"],
          decisions_log |-> decisions_log]
    ELSE Local(IF answer = "raises"
               THEN [validated_mapping |-> <<>>, confidence |-> 0, reasoning |-> "API Error"]
               ELSE parse_openai_response(answer),
               LAMBDA ai_result :
            [result |-> ai_result,
             decisions_log |-> record_openai_decision(decisions_log, file_name, stamp, ai_result)])

\* strategy_5_openai_validation: client is "none" when no client is
\* configured; answer is what the call does, "raises" or the response text.
\* Returns the result and the decision history afterwards.
strategy_5_openai_validation(client, answer, decisions_log, file_name, stamp) ==
    IF client = "none"
    THEN [result |-> [validated_mapping |-> <<>>, confidence |-> 0,
                      reasoning |-> "No OpenAI client"],
          decisions_log |-> decisions_log]
    ELSE IF answer = "raises"
    THEN [result |-> [validated_mapping |-> <<>>, confidence |-> 0, reasoning |-> "API Error"],
          decisions_log |-> decisions_log]
    ELSE Local(parse_openai_response(answer), LAMBDA ai_result :
            [result |-> ai_result,
             decisions_log |-> record_openai_decision(decisions_log, file_name, stamp, ai_result)])

\* the first part of detect_headers_enhanced: the four strategies' results
\* and unique_candidates
ScoreRows(sheet, learning_patterns) ==
    Local(strategy_1_pattern_based(sheet), LAMBDA s1 :
    Local(strategy_2_structural_analysis(sheet), LAMBDA s2 :
    Local(strategy_3_template_pattern(sheet), LAMBDA s3 :
    Local(strategy_4_historical_learning(sheet, learning_patterns), LAMBDA s4 :
        [strategy_lists |-> <<s1, s2, s3, s4>>,
         unique_candidates |-> UniqueCandidates(sheet, s1, s2, s3, s4)]))))

\* the rest of detect_headers_enhanced: the validator is asked and the
\* result is put together.  strategy_lists, unique_candidates,
\* validator_candidates and decisions_log are not in the returned dict: they
\* are the strategies' results, the combined list, what the validator was
\* given, and the history afterwards.
ValidateCandidates(scored, file_name, client, answer, decisions_log, stamp) ==
    Local(strategy_5_openai_validation(client, answer, decisions_log, file_name, stamp),
          LAMBDA validation :
        [file_name |-> file_name,
         strategy_results |-> [pattern_based |-> Len(scored.strategy_lists[1]),
                               structural |-> Len(scored.strategy_lists[2]),
                               template_pattern |-> Len(scored.strategy_lists[3]),
                               historical_learning |-> Len(scored.strategy_lists[4])],
         strategy_lists |-> scored.strategy_lists,
         unique_candidates |-> scored.unique_candidates,
         candidates |-> Take(scored.unique_candidates, ReportedTop),
         validator_candidates |-> IF client = "none" THEN <<>>
                                  ELSE Take(scored.unique_candidates, ValidatorTop),
         openai_validation |-> validation.result,
         final_mapping |-> Get(validation.result, "validated_mapping", <<>>),
         confidence |-> Get(validation.result, "confidence", 0),
         decisions_log |-> validation.decisions_log])

\* detect_headers_enhanced(sheet_data, file_name)
detect_headers_enhanced(sheet, file_name, client, answer, decisions_log, stamp) ==
    ValidateCandidates(ScoreRows(sheet, decisions_log.learning_patterns),
                       file_name, client, answer, decisions_log, stamp)

\* schema.normalize applied to a header: lower case, runs of whitespace and
\* underscores become one underscore, outer underscores are trimmed
normalize(raw) ==
    Lower(StripChar(ReplaceRuns(ReplaceRuns(Strip(raw), WhiteChars, "_"), {"_"}, "_"), "_"))

\* the header string that has these characters, for the headers the pattern
\* stores of the model know
HeaderText(chars) ==
    CASE chars = <<"c", "o", "s", "t">> -> "cost"
      [] chars = <<"r", "a", "t", "e">> -> "rate"
      [] chars = <<"t", "a", "x">> -> "tax"
      [] chars = <<"u", "n", "i", "t", "_", "c", "o", "s", "t">> -> "unit_cost"
      [] OTHER -> "other"

EnhancedMin == 60

\* detect_header_row_enhanced(sheet_obj, file_name), given what
\* detector.detect_headers_enhanced returned; headers come from the columns
\* field (detect_header_row), so the header row index is -1
detect_header_row_enhanced(sheet, result) ==
    LET standard_headers == sheet.columns
        final_mapping == Get(result, "final_mapping", <<>>)
        confidence == Get(result, "confidence", 0)
        keys == {final_mapping[k][1] : k \in 1..Len(final_mapping)}
        ItemOf(items, key) == items[CHOOSE k \in 1..Len(items) : items[k][1] = key][2]
    IN  IF final_mapping # <<>> /\ confidence > EnhancedMin
        THEN [headers |->
                [i \in 1..Len(sheet.columns) |->
                    IF ColumnKey(i - 1) \in keys
                    THEN HeaderText(normalize(ItemOf(final_mapping, ColumnKey(i - 1))))
                    ELSE IF sheet.columns[i] \in keys
                         THEN HeaderText(normalize(ItemOf(final_mapping, sheet.columns[i])))
                         ELSE standard_headers[i]],
              hidx |-> -1,
              info |-> [enhanced |-> TRUE,
                        confidence |-> confidence,
                        ai_validation |-> result.openai_validation,
                        strategy_results |-> result.strategy_results,
                        original_headers |-> standard_headers]]
        ELSE [headers |-> standard_headers,
              hidx |-> -1,
              info |-> [enhanced |-> FALSE,
                        reason |-> "Enhanced detection not available or failed",
                        original_headers |-> standard_headers]]

BonusMin == 80

\* _analyze_sheet_with_cross_patterns after the headers are detected: the
\* columns are analyzed under the detected headers, with the bonus when
\* enhanced_used and enhancement_confidence > 0.8
AnalyzeDetected(sheet, detected, store, threshold) ==
    AnalyzeSheetWithCrossPatterns(
        "s1" :> [columns |-> detected.headers, rows |-> Len(sheet.data)],
        "s1", store, threshold,
        Get(detected.info, "enhanced", FALSE) /\ Get(detected.info, "confidence", 0) > BonusMin)
        @@ [header_enhancement |-> detected.info]

(***************************************************************************)
(* Header detection on one sheet: the rows and sheets of the model, and    *)
(* what the validator may answer.                                          *)
(***************************************************************************)
SampleRows ==
    LET LaneId == <<"L", "a", "n", "e", " ", "I", "D">>
        OriginPort == <<"O", "r", "i", "g", "i", "n", " ", "P", "o", "r", "t">>
        DestinationPort == <<"D", "e", "s", "t", "i", "n", "a", "t", "i", "o", "n", " ",
                             "P", "o", "r", "t">>
        RateUsd == <<"R", "a", "t", "e", " ", "(", "U", "S", "D", ")">>
        Marker == <<"<", "<", "a", ">", ">">>
        VarRef == <<"v", "a", "r", ".", "b">>
        Qty == <<"q", "t", "y">>
        Nan == <<"n", "a", "n">>
    IN  {\* a header row: every value has a keyword
         <<LaneId, OriginPort, DestinationPort, RateUsd>>,
         \* a data row of numbers
         <<<<"1">>, <<"1", "0", "0">>, <<"2", ".", "5">>, <<"7">>>>,
         \* two values only: the third cell is blank and the fourth is nan
         <<LaneId, OriginPort, <<" ">>, Nan>>,
         \* a row of template markers, which has no fourth cell
         <<Marker, VarRef, Qty>>,
         \* three values, one of them with a keyword
         <<Qty, Nan, LaneId, <<"7">>>>}

MaxSheetRows == 2

\* sheets with generic column identifiers, whose rows have the cells col_i,
\* and a sheet with named columns, whose rows have no cell col_i
\* a sheet on which the strategies lead with different rows: a row of
\* underscored keywords, a row of spaced keywords, a row of underscored codes
\* and a row of template markers
LayeredSheet ==
    [columns |-> <<"col_0", "col_1", "col_2", "col_3">>,
     data |-> <<<<<<"l", "a", "n", "e", "_", "i", "d">>,
                  <<"u", "n", "i", "t", "_", "c", "o", "s", "t">>,
                  <<"r", "a", "t", "e", "_", "u", "s", "d">>,
                  <<"o", "r", "i", "g", "i", "n", "_", "p", "o", "r", "t">>>>,
                <<<<"L", "a", "n", "e", " ", "I", "D">>,
                  <<"O", "r", "i", "g", "i", "n", " ", "P", "o", "r", "t">>,
                  <<"T", "o", "t", "a", "l", " ", "C", "o", "s", "t">>,
                  <<"R", "a", "t", "e", " ", "(", "U", "S", "D", ")">>>>,
                <<<<"a", "_", "b">>, <<"c", "_", "d">>, <<"e", "_", "f">>, <<"g", "_", "h">>>>,
                <<<<"<", "<", "a", ">", ">">>, <<"v", "a", "r", ".", "b">>, <<"q", "t", "y">>>>>>]

DetectSheets ==
    {[columns |-> <<"col_0", "col_1", "col_2", "col_3">>, data |-> rows] :
        rows \in SeqsUpTo(SampleRows, MaxSheetRows)}
        \cup {[columns |-> <<"item", "rate", "tax">>, data |-> <<<<>>, <<>>>>]}
        \cup {LayeredSheet}

GoodAnswer ==
    [validated_mapping |-> <<<<"col_1", <<"R", "a", "t", "e">>>>,
                            <<"col_2", <<"u", "n", "i", "t", " ", "c", "o", "s", "t">>>>>>,
     confidence |-> 90, reasoning |-> "domain terms", improvements |-> <<>>]

\* what one call of the validator may do
Answers ==
    LET Prose == [kind |-> "prose"]
        JsonObject(value) == [kind |-> "object", value |-> value]
        MidAnswer ==
            [validated_mapping |-> <<<<"rate", <<"c", "o", "s", "t">>>>,
                                    <<"col_2", <<"t", "a", "x">>>>>>,
             confidence |-> 70, reasoning |-> "partly"]
    IN  {"raises",
         NoContent,
         <<Prose>>,
         <<[kind |-> "open"], Prose>>,
         <<[kind |-> "broken"]>>,
         <<Prose, JsonObject(GoodAnswer), Prose>>,
         <<JsonObject(GoodAnswer), Prose, JsonObject(GoodAnswer)>>,
         <<JsonObject(MidAnswer)>>}

DetectStores == {EmptyStore, TrainedStore(EmptyStore, <<"s2" :> ColumnsB>>)}

DetectThresholds == {50, 80}

FileName == "target.json"

MaxDetections == 1

\* the answer to a sheet of many columns, one word for each column
WideAnswer ==
    [validated_mapping |->
        [k \in 1..(PositiveLimit - 1) |->
            <<ToString(k), <<"w", ToString(k \div 10), ToString(k % 10)>>>>],
     confidence |-> 80, reasoning |-> "wide sheet", improvements |-> <<>>]

\* the history file record_openai_decision leaves when the first call, on
\* "wide.json" at second 0, got WideAnswer: every word of the answer is a
\* positive indicator, which leaves the list one short of its limit
WideHistory ==
    [total_decisions |-> 1,
     decisions |-> (<<"wide.json", 0>> :>
                       [file_name |-> "wide.json",
                        timestamp |-> 0,
                        ai_result |-> WideAnswer,
                        confidence |-> WideAnswer.confidence]),
     learning_patterns |->
        [positive_indicators |->
            [k \in 1..(PositiveLimit - 1) |-> WideAnswer.validated_mapping[k][2]],
         negative_indicators |-> <<>>]]

\* the history file before the first call: none, the file a call that got
\* GoodAnswer at second 0 has left, or the file a call on a wide sheet has left
PriorHistories ==
    {NewHistory,
     record_openai_decision(NewHistory, FileName, 0, GoodAnswer),
     WideHistory}

DInit ==
    /\ sheet_input \in DetectSheets
    /\ openai_client \in {"none", "configured"}
    /\ known_patterns \in DetectStores
    /\ min_confidence \in DetectThresholds
    /\ decision_history \in PriorHistories
    /\ clock = 0
    /\ last_answer = "none"
    /\ detection = <<>>
    /\ enhancement = <<>>
    /\ sheet_analysis = <<>>
    /\ last_call = "none"
    /\ detections = 0
    /\ AIdle
    /\ MIdle
    /\ HIdle
    /\ SIdle
    /\ IIdle

\* what a call of detect_headers_enhanced does to the state, given the
\* strategies' results on the sheet
Detected(scored, answer) ==
    /\ clock' \in {clock, clock + 1}
    /\ detection' = ValidateCandidates(scored, FileName, openai_client, answer,
                                       decision_history, clock')
    /\ decision_history' = detection'.decisions_log
    /\ last_answer' = answer
    /\ detections' = detections + 1
    /\ UNCHANGED <<sheet_input, openai_client, known_patterns, min_confidence>>
    /\ UNCHANGED <<avars, mvars, hvars, svars, ivars>>

\* _analyze_sheet_with_cross_patterns with use_enhanced_headers
AnalyzeSheetEnhanced ==
    /\ detections < MaxDetections
    /\ \E scored \in {ScoreRows(sheet_input, decision_history.learning_patterns)} :
          \E answer \in (IF openai_client = "none" THEN {"not called"} ELSE Answers) :
             Detected(scored, answer)
    /\ enhancement' = detect_header_row_enhanced(sheet_input, detection')
    /\ sheet_analysis' = AnalyzeDetected(sheet_input, enhancement', known_patterns, min_confidence)
    /\ last_call' = "analyze_enhanced"

\* _analyze_sheet_with_cross_patterns without use_enhanced_headers
AnalyzeSheetStandard ==
    /\ detections < MaxDetections
    /\ sheet_analysis' =
          AnalyzeDetected(sheet_input,
                          [headers |-> sheet_input.columns, hidx |-> -1,
                           info |-> [enhanced |-> FALSE]],
                          known_patterns, min_confidence)
    /\ last_call' = "analyze_standard"
    /\ detections' = detections + 1
    /\ UNCHANGED <<sheet_input, openai_client, known_patterns, min_confidence, decision_history,
                   clock, last_answer, detection, enhancement>>
    /\ UNCHANGED <<avars, mvars, hvars, svars, ivars>>

DNext == AnalyzeSheetEnhanced \/ AnalyzeSheetStandard

SpecDetect == DInit /\ [][DNext]_vars

(***************************************************************************)
(* Claims about the validator (checked under SpecDetect)                   *)
(***************************************************************************)
\* what _analyze_sheet_with_cross_patterns returns for the sheet without
\* use_enhanced_headers
StandardAnalysis ==
    AnalyzeDetected(sheet_input,
                    [headers |-> sheet_input.columns, hidx |-> -1, info |-> [enhanced |-> FALSE]],
                    known_patterns, min_confidence)

\* the step is an analysis with enhanced headers in which no validator is
\* configured or the validator call raises
ValidatorUnavailableStep ==
    /\ detections' = detections + 1
    /\ last_call' = "analyze_enhanced"
    /\ openai_client = "none" \/ last_answer' = "raises"

\* C11: when no validator is configured or the validator call raises, the
\* validation result is an empty mapping with confidence 0.0 and a reason,
\* the headers are the standard headers with enhanced = false, the columns
\* get the decisions and confidences they get without enhanced headers, and
\* the decision history is left as it was.
C11_ValidatorUnavailable ==
    [][ValidatorUnavailableStep
        => /\ detection'.openai_validation.validated_mapping = <<>>
           /\ detection'.openai_validation.confidence = 0
           /\ detection'.openai_validation.reasoning \in {"No OpenAI client", "API Error"}
           /\ enhancement'.headers = sheet_input.columns
           /\ enhancement'.info.enhanced = FALSE
           /\ sheet_analysis'.columns = StandardAnalysis.columns
           /\ sheet_analysis'.unknowns = StandardAnalysis.unknowns
           /\ decision_history' = decision_history]_vars

\* the validator raised on a sheet with header candidates and undecided
\* columns, the history holding the decision of an earlier call
C11_Witness ==
    /\ last_call = "analyze_enhanced"
    /\ last_answer = "raises"
    /\ detection.candidates # <<>>
    /\ sheet_analysis.unknowns # <<>>
    /\ decision_history.total_decisions = 1

\* the response text is not prose around one well-formed JSON object: it
\* has no content, no object, a brace that is never closed, broken JSON, or
\* several objects
Unparseable(text) ==
    LET marked == {i \in 1..Len(text) : text[i].kind # "prose"}
    IN  \/ Cardinality(marked) # 1
        \/ \E i \in marked : text[i].kind # "object"

ResponseReceived ==
    /\ last_call = "analyze_enhanced"
    /\ openai_client = "configured"
    /\ last_answer # "raises"

\* C12: whenever the validator's response text cannot be parsed into a
\* result, the validation has an empty mapping and confidence 0.0, and the
\* enhanced headers are not applied.
C12_UnparseableIsZero ==
    (ResponseReceived /\ Unparseable(last_answer))
        => /\ detection.openai_validation.validated_mapping = <<>>
           /\ detection.openai_validation.confidence = 0
           /\ enhancement.info.enhanced = FALSE

\* the values the scorer reads from row r (counted from 1) of the sheet
ScannedValues(r) == RowValues(sheet_input.data[r], Len(sheet_input.columns))

\* every value of the row contains a term of the domain vocabulary, in any case
AllKeywordRow(r) ==
    \A i \in 1..Len(ScannedValues(r)) :
        \E c \in 1..Len(business_keywords) : \E k \in 1..Len(business_keywords[c]) :
            Contains(Lower(ScannedValues(r)[i]), business_keywords[c][k])

\* every value of the row is a number
AllNumericRow(r) ==
    \A i \in 1..Len(ScannedValues(r)) :
        \A j \in 1..Len(ScannedValues(r)[i]) : ScannedValues(r)[i][j] \in Digits \cup {"."}

\* C16: under the keyword strategy a row of at least 3 values that all
\* contain a domain keyword is a candidate with a positive score that no
\* candidate exceeds, and a row of at least 3 values that are all numbers is
\* not a candidate, so the keyword row is ranked above it.
C16_KeywordRowRanked ==
    last_call = "analyze_enhanced" =>
        LET ranked == detection.strategy_lists[1]
        IN  \A r \in 1..Min(RowLimit, Len(sheet_input.data)) :
                Len(ScannedValues(r)) >= MinValues =>
                    /\ AllKeywordRow(r) =>
                          \E k \in 1..Len(ranked) :
                              /\ ranked[k].row_idx = r - 1
                              /\ ranked[k].score[1] > 0
                              /\ \A j \in 1..Len(ranked) :
                                    ~ScoreAbove(ranked[j].score, ranked[k].score)
                    /\ AllNumericRow(r) =>
                          \A k \in 1..Len(ranked) : ranked[k].row_idx # r - 1

\* the sheet has the row of the scenario and a row of numbers next to it
C16_Witness ==
    /\ last_call = "analyze_enhanced"
    /\ Len(sheet_input.data) = 2
    /\ AllKeywordRow(2) /\ Len(ScannedValues(2)) = 4
    /\ AllNumericRow(1) /\ Len(ScannedValues(1)) = 4
    /\ Len(detection.strategy_lists[1]) = 1
    /\ detection.strategy_lists[1][1].row_idx = 1

\* the rows of the sheet that have a value
PopulatedRows == {r \in 1..Len(sheet_input.data) : ScannedValues(r) # <<>>}

\* C17: for a sheet with fewer than 3 populated rows each of the four
\* scoring strategies returns an empty candidate list and
\* detect_headers_enhanced reports zero candidates.
C17_FewRowsNoCandidates ==
    (last_call = "analyze_enhanced" /\ Cardinality(PopulatedRows) < 3)
        => /\ \A s \in 1..4 : detection.strategy_lists[s] = <<>>
           /\ detection.strategy_results =
                 [pattern_based |-> 0, structural |-> 0, template_pattern |-> 0,
                  historical_learning |-> 0]
           /\ detection.candidates = <<>>

(***************************************************************************)
(* Claims about the commands (checked under SpecStore)                     *)
(***************************************************************************)
\* what the pairs that do not raise teach, merged from the first to the last
RECURSIVE MergedInOrder(_)
MergedInOrder(learned_stores) ==
    IF learned_stores = <<>> THEN EmptyStore
    ELSE enhanced_merge_patterns(
            MergedInOrder(SubSeq(learned_stores, 1, Len(learned_stores) - 1)),
            learned_stores[Len(learned_stores)])

LearnedOf(pairs) ==
    LET readable == SelectSeq(pairs, LAMBDA p : p # Unreadable)
    IN  [i \in 1..Len(readable) |-> enhanced_learn_from_pair(readable[i])]

TrainStep == last_cmd' = "train" /\ commands' = commands + 1

\* C13: train exits with a non-zero status exactly when no pair is found,
\* and then writes nothing; otherwise a pair that raises leaves the
\* accumulated store as it was, the other pairs are all merged in order, and
\* that store is what is saved, with exit status zero.
C13_TrainSkipsFailingPairs ==
    [][TrainStep
        => /\ exit_code' # 0 <=> found_pairs' = <<>>
           /\ found_pairs' = <<>> => store_file' = store_file
           /\ found_pairs' # <<>> =>
                 /\ written' = MergedInOrder(LearnedOf(found_pairs'))
                 /\ store_file' = save_store(written')]_vars

\* the first pair raised and the second one was learned
C13_Witness ==
    /\ last_cmd = "train"
    /\ exit_code = 0
    /\ Len(found_pairs) = 2
    /\ found_pairs[1] = Unreadable
    /\ found_pairs[2] # Unreadable
    /\ DOMAIN written.sheets # {}
    /\ store_file = save_store(written)

\* a train or update command that wrote the store file
WriteStep ==
    /\ last_cmd' \in {"train", "update"}
    /\ commands' = commands + 1
    /\ exit_code' = 0

\* C14: train and update read the existing store and write the whole store
\* back, so every sheet of the file, and every header with a verdict in it,
\* is still in the file after the operation.
C14_WritersKeepEntries ==
    [][WriteStep
        => LET before == load_store(store_file)
               after == load_store(store_file')
           IN  \A sheet \in DOMAIN before.sheets :
                  /\ sheet \in DOMAIN after.sheets
                  /\ DOMAIN before.sheets[sheet].verifications
                        \subseteq DOMAIN after.sheets[sheet].verifications]_vars

(***************************************************************************)
(* Claims about the analyzer's confidence (checked under SpecAnalyze)      *)
(***************************************************************************)
\* the weights of the tags in pattern_analysis.reasons, in tenths
TagWeights ==
    LET weight == [empty_to_filled |-> 8, increased_filling |-> 6,
                   value_diversity_increase |-> 3, numeric_pattern |-> 2,
                   structured_pattern |-> 1]
    IN  SumOf([i \in 1..Len(pattern_analysis.reasons) |-> weight[pattern_analysis.reasons[i]]])

HasTag(tag) == \E i \in 1..Len(pattern_analysis.reasons) : pattern_analysis.reasons[i] = tag

OverlappingRows == apc = "analyzed" /\ Len(empty_rows) >= 1 /\ Len(filled_rows) >= 1

\* C15: with at least one overlapping row the confidence is the sum of the
\* weights of the signals that fired, capped at 1.0; empty_to_filled and
\* increased_filling never fire together; the confidence is in [0, 1]; and
\* the column is fillable exactly when the confidence is at least 0.3.
C15_AdditiveConfidence ==
    OverlappingRows =>
        /\ pattern_analysis.confidence = (IF TagWeights > 10 THEN 10 ELSE TagWeights)
        /\ ~(HasTag("empty_to_filled") /\ HasTag("increased_filling"))
        /\ \A i, j \in 1..Len(pattern_analysis.reasons) :
              pattern_analysis.reasons[i] = pattern_analysis.reasons[j] => i = j
        /\ pattern_analysis.confidence \in 0..10
        /\ pattern_analysis.fillable <=> pattern_analysis.confidence >= 3

\* the classic pattern and three more signals fired: the sum 1.4 is capped
C15_Witness ==
    /\ OverlappingRows
    /\ HasTag("empty_to_filled")
    /\ TagWeights = 14
    /\ pattern_analysis.confidence = 10
    /\ pattern_analysis.fillable

\* C18: for an analyzed column with at least one overlapping row, training
\* stores for its header the sample of filled values (at most 10) and, for a
\* sample that has values, the value-pattern summary derived from it,
\* whether or not the column was judged fillable.
C18_PatternsStoredRegardless ==
    OverlappingRows =>
        LET stored == learned.verifications[AnalyzedHeader].pattern_analysis.filled_sample_values
        IN  /\ stored = Take(NonEmptyValues(SampleValues(filled_rows)), 10)
            /\ stored # <<>> =>
                  /\ AnalyzedHeader \in DOMAIN learned.enhanced_patterns
                  /\ learned.enhanced_patterns[AnalyzedHeader].value_types = value_types(stored)

(***************************************************************************)
(* Claims about cross-sheet matching (checked under SpecIdentify)          *)
(***************************************************************************)
CrossReport == ipc = "done" /\ entry_point = "cross_sheet_identify_required_columns"

\* the column results of a cross-sheet report, fill and unknown
ColumnResults ==
    UNION {Range(Get(report.all_sheet_results[sheet], "columns", <<>>))
               \cup Range(Get(report.all_sheet_results[sheet], "unknowns", <<>>)) :
           sheet \in DOMAIN report.all_sheet_results}

\* the confidences, in millionths, of the candidates one learned sheet has
\* for a header
SheetConfidences(header, learned_data) ==
    LET verdicts == Get(learned_data, "verifications", <<>>)
    IN  {950000 : x \in {raw \in Range(Get(learned_data, "columns_to_fill", <<>>)) : raw = header}}
        \cup {85 * 100 * verdicts[raw].confidence : raw \in DOMAIN verdicts \cap {header}}
        \cup {750000 : raw \in DOMAIN Get(learned_data, "enhanced_patterns", <<>>) \cap {header}}
        \cup {Similarity(header, raw) * verdicts[raw].confidence * 70 :
                 raw \in {v \in DOMAIN verdicts : Similarity(header, v) > 70}}

SourceSheets(header) ==
    {sheet \in DOMAIN pattern_store.sheets :
        SheetConfidences(header, pattern_store.sheets[sheet]) # {}}

GreatestConfidence(header) ==
    LET all == UNION {SheetConfidences(header, pattern_store.sheets[sheet]) :
                         sheet \in DOMAIN pattern_store.sheets}
    IN  CHOOSE best \in all : \A other \in all : other <= best

\* C19: the base confidence of a column is the greatest candidate confidence
\* over all learned sheets (0.95 fillable, 0.85 x verdict, 0.75 value
\* pattern, similarity x verdict x 0.7 for similarity > 0.7); the source
\* sheets are the sheets with a candidate; without any candidate the verdict
\* is the label verifier's, confidence unchanged and not learned-fillable.
C19_BestAcrossSheets ==
    CrossReport =>
        \A column \in ColumnResults :
            /\ column.source_patterns = SourceSheets(column.header)
            /\ (SourceSheets(column.header) # {} /\ ~ai_headers)
                  => column.confidence = GreatestConfidence(column.header)
            /\ SourceSheets(column.header) = {}
                  => /\ ~ai_headers => column.confidence
                                          = verify_label(column.header).confidence * 10000
                     /\ column.label = verify_label(column.header).label
                     /\ column.verified_by = verify_label(column.header).method
                     /\ column.learned_fillable = FALSE

\* the best candidate of the column "date" is a similar header that only
\* the learned sheet s2 has
C19_Witness ==
    /\ CrossReport
    /\ ~ai_headers
    /\ \E column \in ColumnResults :
          /\ column.header = "date"
          /\ column.source_patterns = {"s2"}
          /\ column.confidence = GreatestConfidence("date")
          /\ column.confidence \notin {950000, 750000}
          /\ column.verified_by[1] = "semantic_similarity"

\* the confidence and the learned-fillable flag of the best candidate of a
\* header, and of the label verifier without candidates
BaseVerdict(header) == FindBestCrossSheetMatch(header, pattern_store.sheets)

\* C20: the final confidence of a column is the base confidence plus 0.15
\* when enhanced headers were used with validator confidence > 0.8, capped at
\* 1.0; the decision is "fill" exactly when the best candidate is
\* learned-fillable or the final confidence is at least the threshold, and
\* "unknown" otherwise.
C20_BonusAndDecision ==
    CrossReport =>
        \A sheet \in DOMAIN report.all_sheet_results :
            LET fills == Get(report.all_sheet_results[sheet], "columns", <<>>)
                unknowns == Get(report.all_sheet_results[sheet], "unknowns", <<>>)
                Final(column) ==
                    LET sum == BaseVerdict(column.header).confidence
                                  + (IF ai_headers THEN 150000 ELSE 0)
                    IN  IF sum > 1000000 THEN 1000000 ELSE sum
                Fill(column) ==
                    \/ BaseVerdict(column.header).is_learned_fillable
                    \/ column.confidence >= cutoff * 10000
            IN  /\ \A k \in 1..Len(fills) :
                      /\ fills[k].confidence = Final(fills[k])
                      /\ fills[k].decision = "fill"
                      /\ Fill(fills[k])
                /\ \A k \in 1..Len(unknowns) :
                      /\ unknowns[k].confidence = Final(unknowns[k])
                      /\ unknowns[k].decision = "unknown"
                      /\ ~Fill(unknowns[k])

\* with the bonus one column reaches the cap and is below the threshold but
\* learned-fillable, and another column stays unknown
C20_Witness ==
    /\ CrossReport
    /\ ai_headers
    /\ \E column \in ColumnResults :
          /\ column.decision = "fill"
          /\ column.confidence = 1000000
          /\ column.confidence < cutoff * 10000
          /\ column.learned_fillable
    /\ \E column \in ColumnResults :
          /\ column.decision = "unknown"
          /\ column.confidence > 150000

(***************************************************************************)
(* Claims about the default identification and the reports (checked under  *)
(* SpecIdentify)                                                           *)
(***************************************************************************)
DefaultReport == ipc = "done" /\ entry_point = "identify_required_columns"

CrossResult ==
    cross_sheet_identify_required_columns(document, pattern_store, requested, cutoff, ai_headers)

SingleSheetResult ==
    enhanced_identify_required_columns(document, pattern_store, requested, cutoff, ai_headers)

\* the primary result has a fill column and the average confidence of its
\* fill columns is at least 0.8 x threshold
PrimaryIsGood ==
    LET fills == Get(CrossResult.primary_results, "columns", <<>>)
    IN  /\ fills # <<>>
        /\ SumOf([k \in 1..Len(fills) |-> fills[k].confidence]) * 10
              >= 8 * cutoff * 10000 * Len(fills)

\* the fill columns of a sheet-first report with the sheet they are in
SheetFirstFills(rep) ==
    UNION {{<<sheet, column>> : column \in Range(Get(rep.sheets[sheet], "columns", <<>>))} :
           sheet \in DOMAIN Get(rep, "sheets", <<>>)}

LearnedInSheet(sheet, header) ==
    /\ sheet \in DOMAIN pattern_store.sheets
    /\ header \in Range(Get(pattern_store.sheets[sheet], "columns_to_fill", <<>>))

\* the part of C21 that does not depend on the threshold of the fallback
ReturnsCrossOrSingle ==
    /\ PrimaryIsGood => report = CrossResult
    /\ ~PrimaryIsGood => report = SingleSheetResult

FillScore(sheet_results) ==
    LET fills == Get(sheet_results, "columns", <<>>)
    IN  SumOf([k \in 1..Len(fills) |-> fills[k].confidence])

\* the analyzed sheets that can be primary: no error, a positive score
ScoredSheets ==
    {sheet \in DOMAIN report.all_sheet_results :
        /\ "error" \notin DOMAIN report.all_sheet_results[sheet]
        /\ Get(report.all_sheet_results[sheet], "columns", <<>>) # <<>>
        /\ FillScore(report.all_sheet_results[sheet]) > 0}

\* C22: the primary sheet of a cross-sheet report is a non-error sheet whose
\* score (fill columns times average confidence) no other non-error sheet
\* exceeds, primary_results is that sheet's result, and when no sheet has a
\* fill column with a positive score there is no primary sheet and
\* primary_results is empty.
C22_PrimaryIsBestSheet ==
    CrossReport =>
        IF ScoredSheets = {}
        THEN report.primary_sheet = "None" /\ report.primary_results = <<>>
        ELSE /\ report.primary_sheet \in ScoredSheets
             /\ \A sheet \in ScoredSheets :
                    FillScore(report.all_sheet_results[sheet])
                        <= FillScore(report.all_sheet_results[report.primary_sheet])
             /\ report.primary_results = report.all_sheet_results[report.primary_sheet]

\* two sheets have fill columns and the later one of the workbook wins
C22_Witness ==
    /\ CrossReport
    /\ Cardinality(ScoredSheets) >= 2
    /\ report.primary_sheet \in ScoredSheets
    /\ \E sheet \in ScoredSheets :
          /\ FillScore(report.all_sheet_results[sheet])
                < FillScore(report.all_sheet_results[report.primary_sheet])
          /\ \E i, j \in 1..Len(find_data_sheets(document)) :
                /\ i < j
                /\ find_data_sheets(document)[i] = sheet
                /\ find_data_sheets(document)[j] = report.primary_sheet

(***************************************************************************)
(* C23: the combined candidate list (checked under SpecDetect)             *)
(***************************************************************************)
EnhancedDetection == last_call = "analyze_enhanced"

\* what the combined list is made from: <<row index, score, strategy>> of the
\* leading results of the four strategies
CombinedResults ==
    LET tops == <<KeywordTop, StructuralTop, TemplateTop, HistoricalTop>>
    IN  UNION {{<<detection.strategy_lists[i][k].row_idx,
                  detection.strategy_lists[i][k].score,
                  detection.strategy_lists[i][k].strategy>> :
                k \in 1..Min(tops[i], Len(detection.strategy_lists[i]))} : i \in 1..4}

\* C23: the combined list holds only leading results of the four strategies
\* (two keyword, two structural, one template, one historical), at most one
\* per row index and that one with the highest score a combined strategy
\* gave the row, in order of non-increasing score; the validator is given
\* at most its first three entries.
C23_CombinedCandidates ==
    EnhancedDetection =>
        LET unique == detection.unique_candidates
            given == detection.validator_candidates
        IN  /\ \A k \in 1..Len(unique) :
                   /\ <<unique[k].row_index, unique[k].score, unique[k].strategy>> \in CombinedResults
                   /\ \A c \in CombinedResults :
                         c[1] = unique[k].row_index => ~ScoreAbove(c[2], unique[k].score)
            /\ \A c \in CombinedResults : \E k \in 1..Len(unique) : unique[k].row_index = c[1]
            /\ \A j, k \in 1..Len(unique) : j < k =>
                   /\ unique[j].row_index # unique[k].row_index
                   /\ ~ScoreAbove(unique[k].score, unique[j].score)
            /\ Len(given) <= ValidatorTop
            /\ given = Take(unique, Len(given))
            /\ openai_client # "none" => Len(given) = Min(ValidatorTop, Len(unique))

\* a row that two strategies scored differently, the better score of which is
\* not the first in the order of the strategies, and a validator call
C23_Witness ==
    /\ EnhancedDetection
    /\ openai_client # "none"
    /\ Len(detection.unique_candidates) > ValidatorTop
    /\ \E c, d \in CombinedResults :
          /\ c[1] = d[1]
          /\ ScoreAbove(c[2], d[2])
          /\ c[3] # "pattern_based"

(***************************************************************************)
(* C24: the decision log (checked under SpecDetect)                        *)
(***************************************************************************)
\* a call of detect_headers_enhanced in which the validator answers
RecordedStep ==
    /\ detections' = detections + 1
    /\ ResponseReceived'

\* C24: the decision log only grows: every validator call that obtains a
\* response adds exactly one entry under an identifier the log did not have
\* and increments total_decisions by one, so total_decisions is the number
\* of entries and no earlier entry is removed or overwritten.
C24_LogOnlyGrows ==
    [][RecordedStep
        => /\ decision_history'.total_decisions = decision_history.total_decisions + 1
           /\ \E id \in DOMAIN decision_history'.decisions :
                 /\ id \notin DOMAIN decision_history.decisions
                 /\ DOMAIN decision_history'.decisions = DOMAIN decision_history.decisions \cup {id}
           /\ \A id \in DOMAIN decision_history.decisions :
                 decision_history'.decisions[id] = decision_history.decisions[id]
           /\ decision_history'.total_decisions = Cardinality(DOMAIN decision_history'.decisions)]_vars

(***************************************************************************)
(* C25: the indicator lists (checked under SpecDetect)                     *)
(***************************************************************************)
\* `after` is what is left of `before` followed by new entries when only the
\* last `limit` entries are kept
KeepsMostRecent(before, after, limit) ==
    /\ Len(after) <= limit
    /\ \E dropped \in 0..Len(before) :
          LET kept == Len(before) - dropped
          IN  /\ kept <= Len(after)
              /\ SubSeq(after, 1, kept) = SubSeq(before, dropped + 1, Len(before))
              /\ \A j \in (kept + 1)..Len(after) : after[j] \notin Range(before)
              /\ dropped > 0 => Len(after) = limit

\* the words of more than two characters in the headers the validator gave
AnswerWords ==
    LET mapping == Get(detection.openai_validation, "validated_mapping", <<>>)
    IN  UNION {{w \in Range(SplitWords(mapping[k][2], <<>>)) : Len(w) > MinPartLength} :
               k \in 1..Len(mapping)}

\* C25: after every recorded decision the list of positive indicators has at
\* most 100 entries and the list of negative indicators at most 50, what is
\* retained is the most recently added entries in insertion order, and the
\* positive list has no duplicate.
C25_IndicatorLists ==
    [][RecordedStep
        => LET before == decision_history.learning_patterns
               after == decision_history'.learning_patterns
           IN  /\ KeepsMostRecent(before.positive_indicators, after.positive_indicators,
                                  PositiveLimit)
               /\ KeepsMostRecent(before.negative_indicators, after.negative_indicators,
                                  NegativeLimit)
               /\ \A w \in AnswerWords' :
                      w \notin Range(before.positive_indicators)
                          => w \in Range(after.positive_indicators)
               /\ \A i, j \in 1..Len(after.positive_indicators) :
                      i # j => after.positive_indicators[i] # after.positive_indicators[j]]_vars

\* a decision has been recorded that filled the positive list beyond its
\* limit: the oldest entries are gone and the newest entry is the last
C25_Witness ==
    /\ ResponseReceived
    /\ Len(decision_history.learning_patterns.positive_indicators) = PositiveLimit
    /\ decision_history.learning_patterns.positive_indicators[1] = <<"w", "0", "3">>
    /\ decision_history.learning_patterns.positive_indicators[PositiveLimit] = <<"c", "o", "s", "t">>

(***************************************************************************)
(* C26: a column that did not change (checked under SpecAnalyze)           *)
(***************************************************************************)
\* the sampled values of the column are the same in both versions
IdenticalSamples ==
    /\ OverlappingRows
    /\ SampleValues(empty_rows) = SampleValues(filled_rows)

\* C26: a column whose sampled values are identical in the empty and the
\* filled version is never judged fillable.
C26_IdenticalNeverFillable ==
    IdenticalSamples => ~pattern_analysis.fillable

\* C26 (amended): a column whose sampled values are identical in both versions
\* gets none of the tags that compare the versions, and it is judged fillable
\* only through the shape of its values: they are mostly numeric and match
\* two value patterns, which gives the confidence 0.3.
C26_IdenticalFillableByShapeOnly ==
    IdenticalSamples =>
        /\ ~HasTag("empty_to_filled")
        /\ ~HasTag("increased_filling")
        /\ ~HasTag("value_diversity_increase")
        /\ pattern_analysis.fillable
              => /\ HasTag("numeric_pattern")
                 /\ HasTag("structured_pattern")
                 /\ pattern_analysis.confidence = FillableTenths

C26_Witness ==
    /\ IdenticalSamples
    /\ NonEmptyCount(SampleValues(filled_rows)) > 0
    /\ pattern_analysis.fillable
    /\ pattern_analysis.reasons = <<"numeric_pattern", "structured_pattern">>

(***************************************************************************)
(* C30: the two ratios (checked under SpecAnalyze)                         *)
(***************************************************************************)
\* the ratio num/den lies in [0, 1] and is the fraction of non-empty values
\* among the sampled values of `rows`
IsOwnFraction(ratio, rows) ==
    /\ 0 <= ratio[1]
    /\ ratio[1] <= ratio[2]
    /\ ratio[1] * Len(SampleValues(rows)) = NonEmptyCount(SampleValues(rows)) * ratio[2]

\* C30: whatever the lengths of the two samples, empty_ratio and
\* filled_ratio each lie in [0, 1] and equal the fraction of non-empty values
\* in that version's own sample.
C30_RatiosAreOwnFractions ==
    OverlappingRows =>
        /\ IsOwnFraction(pattern_analysis.empty_ratio, empty_rows)
        /\ IsOwnFraction(pattern_analysis.filled_ratio, filled_rows)

(***************************************************************************)
(* C27: the shape of a stored sheet (checked under SpecStore)              *)
(***************************************************************************)
StoredSheets == IF store_file = NoFile THEN {} ELSE DOMAIN written.sheets

\* C27: in every store that train (merges of learned results into the empty
\* store) and update commands produce, every sheet's fillable headers have a
\* verdict and a header-variant entry, every key of the value-pattern map is
\* a fillable header, and the fillable list has no duplicate.
C27_SheetShape ==
    \A sheet \in StoredSheets :
        LET data == written.sheets[sheet]
            fillable == data.columns_to_fill
        IN  /\ \A i \in 1..Len(fillable) :
                   /\ fillable[i] \in DOMAIN data.verifications
                   /\ fillable[i] \in DOMAIN data.header_map
            /\ DOMAIN Get(data, "enhanced_patterns", <<>>) \subseteq Range(fillable)
            /\ \A i, j \in 1..Len(fillable) : i # j => fillable[i] # fillable[j]

\* a trained sheet that an update has extended: a header with value
\* patterns and a header only the user has marked
C27_Witness ==
    /\ last_cmd = "update"
    /\ \E sheet \in StoredSheets :
          LET data == written.sheets[sheet]
          IN  /\ DOMAIN Get(data, "enhanced_patterns", <<>>) # {}
              /\ \E raw \in Range(data.columns_to_fill) :
                    /\ raw \notin DOMAIN Get(data, "enhanced_patterns", <<>>)
                    /\ data.verifications[raw].method = <<"user">>
                    /\ data.header_map[raw] = <<>>

(***************************************************************************)
(* C29: the update command (checked under SpecStore)                       *)
(***************************************************************************)
UpdateStep == last_cmd' = "update" /\ commands' = commands + 1

\* `after` is `before` with the labels of the user file applied: the named
\* headers are fillable and have the user's verdict, nothing else the claim
\* names has changed, and applying the file again changes nothing
AppliedLabels(before, after, upd) ==
    /\ DOMAIN after.sheets = DOMAIN before.sheets \cup DOMAIN upd
    /\ \A sheet \in DOMAIN before.sheets \ DOMAIN upd :
          after.sheets[sheet] = before.sheets[sheet]
    /\ \A sheet \in DOMAIN upd :
          LET old == Get(before.sheets, sheet, DefaultSheet)
              new == after.sheets[sheet]
              named == {upd[sheet][k][1] : k \in 1..Len(upd[sheet])}
          IN  /\ \A k \in 1..Len(upd[sheet]) :
                    /\ upd[sheet][k][1] \in Range(new.columns_to_fill)
                    /\ new.verifications[upd[sheet][k][1]] =
                          [label |-> upd[sheet][k][2], confidence |-> 100, method |-> <<"user">>]
              /\ new.column_positions = old.column_positions
              /\ \A raw \in DOMAIN old.header_map :
                    raw \in DOMAIN new.header_map /\ new.header_map[raw] = old.header_map[raw]
              /\ \A raw \in DOMAIN old.verifications \ named :
                    raw \in DOMAIN new.verifications
                        /\ new.verifications[raw] = old.verifications[raw]
    /\ UpdateStore(after, upd) = after

\* C29: update adds every named header to the fillable list of its sheet and
\* sets its verdict to (label, 1.0, 'user'); it leaves unchanged every sheet
\* the file does not name and, in the named sheets, the column positions,
\* the existing header variants and the other verdicts; applying the same
\* file twice leaves the store as one application left it.
C29_UpdateAppliesLabels ==
    [][UpdateStep
        => \E upd \in UserLabels : AppliedLabels(load_store(store_file), written', upd)]_vars

\* an update of a trained store that names one of two sheets and overrides
\* a learned verdict
C29_Witness ==
    /\ last_cmd = "update"
    /\ store_file # NoFile
    /\ \E sheet, other \in DOMAIN written.sheets :
          /\ sheet # other
          /\ DOMAIN written.sheets[sheet].column_positions # {}
          /\ \E raw \in DOMAIN loaded.sheets[sheet].verifications :
                /\ loaded.sheets[sheet].verifications[raw].method # <<"user">>
                /\ written.sheets[sheet].verifications[raw].method = <<"user">>
          /\ \E raw \in DOMAIN written.sheets[sheet].verifications :
                written.sheets[sheet].verifications[raw].method # <<"user">>
          /\ \A raw \in DOMAIN written.sheets[other].verifications :
                written.sheets[other].verifications[raw].method # <<"user">>

(***************************************************************************)
(* C28: the summary of the identify report (checked under SpecIdentify)    *)
(***************************************************************************)
\* the identify command has produced a report in one of its three modes
CommandReport ==
    /\ ipc = "done"
    /\ entry_point \in {"cross_sheet_identify_required_columns",
                         "enhanced_identify_required_columns",
                         "identify_required_columns"}
    /\ "error" \notin DOMAIN shown

\* the number of entries in the list `field` of the sheets the report shows
ListedEntries(field) ==
    LET names == CHOOSE order \in [1..Cardinality(DOMAIN shown.sheets) -> DOMAIN shown.sheets] :
                    Range(order) = DOMAIN shown.sheets
    IN  SumOf([i \in 1..Len(names) |-> Len(Get(shown.sheets[names[i]], field, <<>>))])

\* C28: in the report of the identify command, in every mode, the summary's
\* total_fillable_columns is the number of 'fill' entries listed under the
\* report's sheets and total_unknown_columns the number of 'unknown' entries
\* listed there, and each analyzed header is in exactly one of the two lists
\* of its sheet.
C28_SummaryCountsListedEntries ==
    CommandReport =>
        /\ shown.summary.total_fillable_columns = ListedEntries("columns")
        /\ shown.summary.total_unknown_columns = ListedEntries("unknowns")
        /\ \A sheet \in DOMAIN shown.sheets :
              LET fills == Get(shown.sheets[sheet], "columns", <<>>)
                  unknowns == Get(shown.sheets[sheet], "unknowns", <<>>)
              IN  /\ \A i \in 1..Len(fills) : fills[i].decision = "fill"
                  /\ \A i \in 1..Len(unknowns) : unknowns[i].decision = "unknown"
                  /\ {fills[i].header : i \in 1..Len(fills)}
                        \cap {unknowns[i].header : i \in 1..Len(unknowns)} = {}
                  /\ sheet \in DOMAIN document =>
                        LET analyzed == ValueColumns(document[sheet].columns)
                        IN  /\ Len(fills) + Len(unknowns) = Len(analyzed)
                            /\ \A k \in 1..Len(analyzed) :
                                  \E entry \in Range(fills) \cup Range(unknowns) :
                                      entry.header = document[sheet].columns[analyzed[k]]

====
